---- MODULE Spec2Model ----
(***************************************************************************)
(* Model of the simulation orchestrator of the negotiation rehearsal       *)
(* prototype (prototype/src/backend/app): the QuestionBudget, the turn     *)
(* engine SimulationEngine._run_single with pause and resume, the run      *)
(* scheduler SimulationEngine.run_stream, and the two routes that drive    *)
(* them (simulate, answer_question) together with the repositories they    *)
(* write.                                                                  *)
(*                                                                         *)
(* Scheduling: the program runs on one asyncio event loop, so a coroutine  *)
(* runs without interruption from one await to the next.  Every action     *)
(* below is one such stretch of code.  The only exception is               *)
(* QuestionBudget.reserve, which is split at its lock so that the lock is  *)
(* what makes it atomic in the model (a finer interleaving than asyncio    *)
(* produces, hence every behaviour of the program is a behaviour here).    *)
(***************************************************************************)
EXTENDS Integers, Sequences, FiniteSets, TLC

----------------------------------------------------------------------------
(* Bounds of the model *)

\* largest `runs` value of a simulate request
MaxRuns == 2
\* largest `max_turns` value of a simulate request
MaxTurns == 4
\* largest `max_questions` value of a simulate request
MaxQuestions == 1
\* largest max_parallel the engine is constructed with
MaxParallel == 1
\* largest number of simulate requests (run_stream calls) made with the
\* session id
MaxStreams == 2
\* largest number of answer requests accepted for the session
MaxResumes == 2
\* largest number of agent calls that fail (validation FAIL) or raise
MaxFaults == 1
\* size of a session: calls * runs^2 * max_turns * (1 + answer requests)
\* * (1 + failing agent calls) is at most MaxWork
MaxWork == 8
\* numbers in one counterparty message of the evaluator's inputs
MaxNumbers == 2
\* white-space characters on one side of a reported action type
MaxPad == 2

----------------------------------------------------------------------------
(* Program constants *)

\* app.core.config.MAX_PARALLEL_RUNS default
MAX_PARALLEL_RUNS == 4
\* answer_question: max_turns=run_data.get("max_turns") or 8
DEFAULT_RESUME_MAX_TURNS == 8

\* An Optional[...] value is a sequence: <<>> is Python's None, <<v>> is v
Nothing == <<>>
Some(v) == <<v>>

Max2(a, b) == IF a >= b THEN a ELSE b

Outcomes == {"PASS", "FAIL", "NEUTRAL"}

----------------------------------------------------------------------------
(* Message texts.  A text is [body, nums]: body is its wording without the  *)
(* numeric tokens ("" when there is none) and nums is the sequence of the   *)
(* numbers that re.findall(r"[-+]?\d[\d,]*(?:\.\d+)?") finds in it, in      *)
(* order, already converted by _to_float.                                   *)

Text(body, nums) == [body |-> body, nums |-> nums]
EmptyText == Text("", <<>>)

\* text.strip() == "": the text has neither wording nor numbers
IsBlank(t) == t.body = "" /\ Len(t.nums) = 0

----------------------------------------------------------------------------
(* The case: one issue, direction MAXIMIZE, SINGLE_VALUE objectives         *)

TheCase ==
    [issues      |-> << [issue_id |-> "price", direction |-> "MAXIMIZE"] >>,
     weights     |-> [i \in {"price"} |-> 1],
     target      |-> [type |-> "SINGLE_VALUE", value |-> 100000],
     reservation |-> [type |-> "SINGLE_VALUE", value |-> 85000]]

\* SimulationEngine._primary_issue_id: the first issue of highest weight
\* (sorted() is stable, reverse=True keeps the order of equal keys)
_primary_issue_id(case) ==
    IF Len(case.issues) = 0 THEN Nothing
    ELSE LET w(i) == IF case.issues[i].issue_id \in DOMAIN case.weights
                     THEN case.weights[case.issues[i].issue_id] ELSE 0
             best == CHOOSE i \in 1..Len(case.issues) :
                        /\ \A j \in 1..Len(case.issues) : w(j) <= w(i)
                        /\ \A j \in 1..(i-1) : w(j) < w(i)
         IN  Some(case.issues[best].issue_id)

\* value of an objective: SINGLE_VALUE, or the primary issue's entry of an
\* OFFER_VECTOR (None when the entry is absent)
ObjectiveValue(case, obj) ==
    IF obj.type = "SINGLE_VALUE" THEN Some(obj.value)
    ELSE IF obj.type = "OFFER_VECTOR"
         THEN LET issue_id == _primary_issue_id(case)
              IN  IF issue_id # Nothing /\ issue_id[1] \in DOMAIN obj.value
                  THEN Some(obj.value[issue_id[1]]) ELSE Nothing
         ELSE Nothing

\* SimulationEngine._desired_values: (target, reservation, direction)
_desired_values(case) ==
    [target      |-> ObjectiveValue(case, case.target),
     reservation |-> ObjectiveValue(case, case.reservation),
     direction   |-> IF Len(case.issues) > 0 THEN case.issues[1].direction
                     ELSE "MAXIMIZE"]

RECURSIVE SeqMin(_), SeqMax(_)
SeqMin(s) == IF Len(s) = 1 THEN s[1]
             ELSE LET m == SeqMin(Tail(s)) IN IF s[1] <= m THEN s[1] ELSE m
SeqMax(s) == IF Len(s) = 1 THEN s[1]
             ELSE LET m == SeqMax(Tail(s)) IN IF s[1] >= m THEN s[1] ELSE m

\* variant: the highest number whatever the direction
_extract_offer_value_AlwaysMax(text, direction) ==
    IF Len(text.nums) = 0 THEN Nothing
    ELSE Some(SeqMax(text.nums))

\* SimulationEngine._extract_offer_value
_extract_offer_value(text, direction) ==
    IF Len(text.nums) = 0 THEN Nothing
    ELSE IF direction = "MINIMIZE" THEN Some(SeqMin(text.nums)) ELSE Some(SeqMax(text.nums))

\* the text of the latest COUNTERPARTY message of a conversation ("" if none)
LatestCounter(conversation) ==
    LET idx == {i \in 1..Len(conversation) : conversation[i].speaker = "COUNTERPARTY"}
    IN  IF idx = {} THEN EmptyText
        ELSE conversation[CHOOSE i \in idx : \A j \in idx : j <= i].text

\* SimulationEngine._evaluate_outcome
_evaluate_outcome(case, conversation) ==
    IF Len(conversation) = 0 THEN "NEUTRAL"
    ELSE LET d == _desired_values(case)
             offer_value == _extract_offer_value(LatestCounter(conversation), d.direction)
         IN  IF offer_value = Nothing \/ d.target = Nothing THEN "NEUTRAL"
             ELSE IF d.direction = "MINIMIZE"
                  THEN IF offer_value[1] <= d.target[1] THEN "PASS"
                       ELSE IF d.reservation # Nothing /\ offer_value[1] <= d.reservation[1]
                            THEN "NEUTRAL" ELSE "FAIL"
                  ELSE IF offer_value[1] >= d.target[1] THEN "PASS"
                       ELSE IF d.reservation # Nothing /\ offer_value[1] >= d.reservation[1]
                            THEN "NEUTRAL" ELSE "FAIL"

----------------------------------------------------------------------------
(* Actions reported by the agents.  The reported type is an ActionType     *)
(* member (kind "enum"), a string (kind "str": optional surrounding white  *)
(* space, optional namespace prefix "ns.", the tag in upper or lower case)  *)
(* or absent (kind "none").                                                 *)

EnumType(tag) == [kind |-> "enum", ns |-> "", tag |-> tag, lower |-> FALSE, pad |-> FALSE]
StrType(ns, tag, lower, pad) == [kind |-> "str", ns |-> ns, tag |-> tag, lower |-> lower, pad |-> pad]

\* SimulationEngine._normalize_action_type: the member's value; for a string
\* strip(), keep what follows the last ".", upper(); "" for None
_normalize_action_type(value) ==
    IF value.kind = "enum" THEN value.tag
    ELSE IF value.kind = "str" THEN value.tag
    ELSE ""

Action(type, question) == [type |-> type, payload |-> [question |-> question]]

\* SimulationEngine._extract_action on a call whose parsed_output["action"]
\* is a mapping: (normalized type, payload, the action itself)
_extract_action(call) ==
    [action_type |-> _normalize_action_type(call.action.type),
     payload     |-> call.action.payload,
     action_obj  |-> call.action]

\* a payload entry that is not a string: a JSON object such as
\* {"text": "..."}, which AgentAction.payload (Dict[str, Any]) admits
JsonObject == [body |-> "", nums |-> <<>>, object |-> TRUE]
IsString(value) == "object" \notin DOMAIN value

\* SimulationEngine._extract_question_text, line 591: a truthy question that
\* is not a string has no strip() and the call raises AttributeError
QuestionTextRaises(payload) == ~IsString(payload.question)

\* SimulationEngine._extract_question_text
_extract_question_text(message_text, payload) ==
    IF ~IsBlank(payload.question) THEN payload.question ELSE message_text

\* variant: _override_action that leaves the reported action in place
_override_action_Keep(call, action_type) == call

\* SimulationEngine._override_action followed by the re-read of
\* call.parsed_output["action"]: the action the turn records
_override_action(call, action_type) ==
    [call EXCEPT !.action = Action(StrType("", action_type, FALSE, FALSE), EmptyText)]

\* variant: a failed reply is passed on without the fallback message
roleplay_NoFallback(reply, fallback_message, fallback_type) ==
    IF reply.ok
    THEN [message_text |-> reply.message_text, action |-> reply.action, status |-> "PASS"]
    ELSE [message_text |-> EmptyText,
          action       |-> Action(StrType("", fallback_type, FALSE, FALSE), EmptyText),
          status       |-> "FAIL"]

\* CounterpartyAgent.roleplay over AgentBase._build_call: what the engine
\* receives for a reply of the language model.  A reply that fails or does
\* not validate is replaced by the fallback text and the fallback action.
roleplay(reply, fallback_message, fallback_type) ==
    IF reply.ok
    THEN [message_text |-> reply.message_text, action |-> reply.action, status |-> "PASS"]
    ELSE [message_text |-> fallback_message,
          action       |-> Action(StrType("", fallback_type, FALSE, FALSE), EmptyText),
          status       |-> "FAIL"]

\* WorldAgent.evaluate_outcome: None when the call failed or the outcome is
\* not one of PASS / FAIL / NEUTRAL
evaluate_outcome(reply) ==
    IF ~reply.ok THEN [outcome |-> Nothing, status |-> "FAIL"]
    ELSE [outcome |-> IF reply.outcome \in Outcomes THEN Some(reply.outcome) ELSE Nothing,
          status  |-> "PASS"]

\* SimulationEngine._user_fallback_message / _counterparty_fallback_message
UserFallback == Text("I'm looking to reach", <<TheCase.target.value>>)
CounterFallback == Text("Thanks for outlining your goal", <<>>)

\* line 148: the (user_text, user_call) pairs that self.user_agent.roleplay
\* hands to the engine: an offer, a question, an ASK_INFO request without
\* any text, and a failed call that carries the fallback message
UserCalls ==
    { [message_text |-> Text("offer", <<>>), status |-> "PASS",
       action |-> Action(EnumType("PROPOSE_OFFER"), EmptyText)],
      [message_text |-> Text("offer", <<>>), status |-> "PASS",
       action |-> Action(EnumType("ASK_INFO"), Text("Q?", <<>>))],
      [message_text |-> EmptyText, status |-> "PASS",
       action |-> Action(StrType("ActionType", "ASK_INFO", FALSE, FALSE), EmptyText)],
      [message_text |-> UserFallback, status |-> "FAIL",
       action |-> Action(StrType("", "PROPOSE_OFFER", FALSE, FALSE), EmptyText)] }

\* replies of the language model to the counterparty prompt
CounterReplies ==
    { [ok |-> TRUE, message_text |-> Text("counter", <<>>),
       action |-> Action(EnumType("COUNTER_OFFER"), EmptyText)],
      [ok |-> TRUE, message_text |-> Text("counter", <<80000>>),
       action |-> Action(EnumType("COUNTER_OFFER"), EmptyText)],
      [ok |-> TRUE, message_text |-> Text("counter", <<120000>>),
       action |-> Action(EnumType("ACCEPT"), EmptyText)],
      [ok |-> TRUE, message_text |-> Text("what about", <<>>),
       action |-> Action(StrType("", "ASK_INFO", TRUE, TRUE), EmptyText)],
      [ok |-> TRUE, message_text |-> Text("what about", <<>>),
       action |-> Action(EnumType("ASK_INFO"), JsonObject)],
      [ok |-> FALSE] }

\* replies of the language model to the outcome prompt of the world agent
WorldReplies ==
    { [ok |-> TRUE, outcome |-> "PASS"], [ok |-> TRUE, outcome |-> "FAIL"],
      [ok |-> TRUE, outcome |-> "NEUTRAL"], [ok |-> TRUE, outcome |-> "UNSURE"],
      [ok |-> FALSE] }

----------------------------------------------------------------------------
(* QuestionBudget *)

\* QuestionBudget.__init__
QuestionBudget(max_questions, used) ==
    [max_questions |-> IF max_questions = Nothing THEN 0 ELSE Max2(0, max_questions[1]),
     used          |-> Max2(0, used),
     locked        |-> FALSE]

\* reserve(), line 37: the fast path that returns False without the lock
FastPathFalse(b) == b.max_questions <= 0

\* variant: reserve() without its lock
LockFree_Ignored(b) == TRUE

\* asyncio.Lock: reserve() enters its critical section only when the lock is free
LockFree(b) == ~b.locked

\* reserve(), line 40: the test made under the lock
Exhausted(b) == b.used >= b.max_questions

----------------------------------------------------------------------------
(* Seeds *)

\* Case identifiers.  A UUID is [hi, lo] with UUID.int = hi * 2^31 + lo; any
\* other string is given by d8, the integer value of the first 8 hex digits
\* of its SHA-256 digest.
CaseIds ==
    { [uuid |-> TRUE,  hi |-> 7, lo |-> 12345, d8 |-> 0],
      [uuid |-> FALSE, hi |-> 0, lo |-> 0, d8 |-> 305419896] }

TheCaseId == CHOOSE c \in CaseIds : c.uuid

\* SimulationEngine._base_seed
_base_seed(case_id) == IF case_id.uuid THEN case_id.lo ELSE case_id.d8

\* run_stream, line 82
TotalRuns(runs) == Max2(1, runs)

\* variant: every task is given the base seed
TaskSeed_NoOffset(base_seed, offset) == base_seed

\* run_stream, line 92: the seed of the task created for an offset
TaskSeed(base_seed, offset) == base_seed + offset

\* run_stream, line 84: the size of the pool.  SimulationEngine.__init__
\* stores max_parallel or MAX_PARALLEL_RUNS.
EngineMaxParallel(max_parallel) == IF max_parallel = 0 THEN MAX_PARALLEL_RUNS ELSE max_parallel
PoolSize(engine_max_parallel) == Max2(1, engine_max_parallel)

----------------------------------------------------------------------------
(* State *)

VARIABLES
    request,        \* the simulate request of the session: runs, max_turns,
                    \* max_questions, case_id (sent again by a later call)
    max_parallel,   \* the max_parallel argument the engine was constructed with
    stream,         \* the run_stream call in progress: semaphore, tasks, the
                    \* as_completed queue, what was yielded
    streams,        \* number of run_stream calls started
    inv,            \* the invocations of _run_single (tasks of run_stream and
                    \* resume_run calls), in order of creation
    budgets,        \* the QuestionBudget objects, in order of creation
    run_repo,       \* RunRepository: run_id -> run record
    trace_repo,     \* TraceRepository: run_id -> trace bundle
    question_repo,  \* PendingQuestionRepository: the questions of the session
    clarifications, \* case_data["clarifications"]: question ids, in order
    env             \* what the environment may still do: resumes, the number
                    \* of answer requests it may send; faults, the number of
                    \* agent calls that may fail or raise

vars == <<request, max_parallel, stream, streams, inv, budgets, run_repo,
          trace_repo, question_repo, clarifications, env>>

db == <<run_repo, trace_repo, question_repo, clarifications>>

NoStream ==
    [state |-> "none", sem |-> 0, pool |-> 0, first |-> 0, total |-> 0,
     queue |-> <<>>, yielded |-> <<>>, budget |-> 0, base_seed |-> 0]

\* the tasks of the run_stream call, in order of creation
Tasks(s) == IF s.total = 0 THEN {} ELSE s.first..(s.first + s.total - 1)

\* the size of a session; the runs of one call interleave, so they count twice
Work(req, resumes, faults) ==
    req.calls * Max2(1, req.runs) * Max2(1, req.runs) * Max2(1, req.max_turns)
        * (1 + resumes) * (1 + faults)

\* The sessions that are explored: the requests and the environments whose
\* size is within MaxWork, with as many answer requests and failing calls as
\* the size allows.  A request of several turns is explored as a single run
\* of a single call with at most MaxTurns / max_turns answer requests, and a
\* session has at most MaxRuns runs in its calls, at most MaxRuns / runs
\* answer requests and at most MaxRuns / runs failing calls.
\* The pool size is varied for requests of several runs.
Fits(req, resumes, faults) ==
    /\ Work(req, resumes, faults) <= MaxWork
    /\ req.max_turns * resumes <= MaxTurns
    /\ req.calls * req.runs * resumes <= MaxRuns
    /\ req.calls * req.runs * faults <= MaxRuns

\* An engine whose registry lists no strategy at first is explored for a
\* single run of at most two turns with one answer request and no failing
\* call.
Sessions(req, par, e) ==
    /\ req.max_turns > 1 => req.calls = 1 /\ req.runs = 1
    /\ req.calls * req.runs <= MaxRuns
    /\ req.runs = 1 => par = 0
    /\ IF e.strategies = 0
       THEN /\ req.calls = 1 /\ req.runs = 1 /\ req.max_turns <= 2
            /\ e.resumes = 1 /\ e.faults = 0
       ELSE /\ Fits(req, e.resumes, e.faults)
            /\ e.resumes = MaxResumes \/ ~Fits(req, e.resumes + 1, e.faults)
            /\ e.faults = MaxFaults \/ ~Fits(req, e.resumes, e.faults + 1)

Init ==
    /\ request \in [calls : 1..MaxStreams, runs : 1..MaxRuns, max_turns : 1..MaxTurns,
                    max_questions : {Nothing} \cup {Some(q) : q \in 0..MaxQuestions},
                    case_id : {TheCaseId}]
    /\ max_parallel \in 0..MaxParallel
    /\ env \in [resumes : 0..MaxResumes, faults : 0..MaxFaults, strategies : 0..1]
    /\ Sessions(request, max_parallel, env)
    /\ stream = NoStream
    /\ streams = 0
    /\ inv = <<>>
    /\ budgets = <<>>
    /\ run_repo = <<>>
    /\ trace_repo = <<>>
    /\ question_repo = <<>>
    /\ clarifications = <<>>

----------------------------------------------------------------------------
(* The turn engine: SimulationEngine._run_single *)

\* SimulationEngine._strategy_suggestions: nothing when the registry lists
\* no strategy, else random.Random(seed).sample of the registry, a function
\* of the seed and the registry alone.  StrategyRegistry.list() reads the
\* strategy directory again for as long as it has found no strategy there.
_strategy_suggestions(seed) ==
    IF env.strategies = 0 THEN <<>>
    ELSE << [strategy_id |-> "S", sample_of |-> seed] >>

\* SimulationEngine._trace_entry: the fields the engine and the routes read
_trace_entry(agent_name, status) == [agent_name |-> agent_name, validation_result |-> status]

\* an invocation before _run_single has started
BlankInv(kind, stream_no, budget, run_id, seed) ==
    [kind |-> kind, stream |-> stream_no, budget |-> budget, run_id |-> run_id,
     seed |-> seed, pc |-> "sem_wait", max_turns |-> 0, turn_index |-> 0,
     conversation |-> <<>>, turns |-> <<>>, agent_call_traces |-> <<>>,
     latest_outcome |-> "NEUTRAL", round_user_turn_index |-> Nothing,
     strategy_suggestions |-> <<>>, call |-> Nothing, status |-> "",
     summary |-> Nothing, pending_question |-> Nothing, pause_state |-> Nothing,
     resume_state |-> Nothing]

\* the record kept for an invocation that is over: pc tells how it ended
\* ("gone": its result was persisted, "discarded": it was done when the
\* stream ended, "failed": it raised, "cancelled")
Tombstone(r, pc) == [BlankInv(r.kind, r.stream, r.budget, r.run_id, r.seed) EXCEPT !.pc = pc]

\* the loop header `for turn_index in range(start_turn_index, max_turns + 1)`
\* at the value r.turn_index: the next await, or the calls after the loop
EnterLoop(r) ==
    IF r.turn_index > r.max_turns THEN [r EXCEPT !.pc = "await_extract"]
    ELSE [r EXCEPT !.pc = IF r.turn_index % 2 = 1 THEN "await_user" ELSE "await_counter"]

\* variant: a loop that advances by two
NextIteration_Skip(r) == EnterLoop([r EXCEPT !.turn_index = @ + 2])

\* the end of one iteration of the loop
NextIteration(r) == EnterLoop([r EXCEPT !.turn_index = @ + 1])

\* lines 113-131: the locals of _run_single up to the first await
StartEngine(r, max_turns, resume_state, strategy_suggestions) ==
    LET sugg == IF strategy_suggestions # Nothing /\ Len(strategy_suggestions[1]) > 0
                THEN strategy_suggestions[1] ELSE _strategy_suggestions(r.seed)
        fresh == [r EXCEPT !.strategy_suggestions = sugg,
                           !.max_turns = Max2(1, max_turns),
                           !.turn_index = 1,
                           !.resume_state = resume_state]
    IN  IF resume_state = Nothing THEN EnterLoop(fresh)
        ELSE LET rs == resume_state[1]
             IN  EnterLoop([fresh EXCEPT
                     !.conversation = rs.conversation,
                     !.turns = rs.turns,
                     !.agent_call_traces = rs.agent_call_traces,
                     !.latest_outcome = rs.latest_outcome,
                     !.round_user_turn_index = rs.round_user_turn_index,
                     !.turn_index = rs.next_turn_index])

\* lines 122-128: the pause-state dict that was passed as resume_state, as its
\* owner sees it while _run_single runs.  `conversation` is bound to the list
\* inside the dict (no copy), so every conversation.append of the engine
\* (lines 204 and 287) appends to the dict's list; turns and
\* agent_call_traces are new lists and the other entries are read once.
GivenPauseState(r) ==
    IF r.resume_state = Nothing THEN Nothing
    ELSE Some([r.resume_state[1] EXCEPT !.conversation = r.conversation])

\* the Turn appended for a speaker at the current turn index
NewTurn(r, speaker, message_text, conversation, action) ==
    [turn_index |-> r.turn_index, speaker |-> speaker, message_text |-> message_text,
     conversation |-> conversation, outcome |-> r.latest_outcome,
     strategy_suggestions |-> r.strategy_suggestions, action |-> action]

\* variant: the user turn is appended without remembering its slot
AppendUserTurn_NoSlot(r, call) ==
    LET conv == Append(r.conversation, [speaker |-> "USER", text |-> call.message_text])
        turns == Append(r.turns, NewTurn(r, "USER", call.message_text, conv, call.action))
    IN  NextIteration([r EXCEPT
            !.conversation = conv,
            !.turns = turns,
            !.agent_call_traces = Append(@, _trace_entry("UserProxy", call.status)),
            !.round_user_turn_index = Nothing,
            !.call = Nothing])

\* lines 204-218: a user turn that does not pause
AppendUserTurn(r, call) ==
    LET conv == Append(r.conversation, [speaker |-> "USER", text |-> call.message_text])
        turns == Append(r.turns, NewTurn(r, "USER", call.message_text, conv, call.action))
    IN  NextIteration([r EXCEPT
            !.conversation = conv,
            !.turns = turns,
            !.agent_call_traces = Append(@, _trace_entry("UserProxy", call.status)),
            !.round_user_turn_index = Some(Len(turns) - 1),
            !.call = Nothing])

\* lines 287-288: a counterparty message that does not pause; the world
\* agent is asked next
CounterSpoke(r, call) ==
    [r EXCEPT
        !.conversation = Append(@, [speaker |-> "COUNTERPARTY", text |-> call.message_text]),
        !.agent_call_traces = Append(@, _trace_entry("Counterparty", call.status)),
        !.call = Some(call),
        !.pc = "await_world"]

\* variant: the asking turn is appended before the run pauses
PauseResult_AppendsTurn(r, agent_name, asked_by, call, question_text) ==
    LET traces == Append(r.agent_call_traces, _trace_entry(agent_name, call.status))
        turns == Append(r.turns, NewTurn(r, asked_by, call.message_text, r.conversation, call.action))
    IN  [r EXCEPT
            !.agent_call_traces = traces,
            !.turns = turns,
            !.pause_state = Some([conversation |-> r.conversation,
                                  turns |-> turns,
                                  agent_call_traces |-> traces,
                                  latest_outcome |-> r.latest_outcome,
                                  round_user_turn_index |-> r.round_user_turn_index,
                                  next_turn_index |-> r.turn_index,
                                  strategy_suggestions |-> r.strategy_suggestions]),
            !.status = "PAUSED",
            !.pending_question = Some([question |-> question_text, asked_by |-> asked_by,
                                       turn_index |-> r.turn_index]),
            !.call = Nothing,
            !.pc = "done"]

\* lines 157-200 and 240-283: the PAUSED result
PauseResult(r, agent_name, asked_by, call, question_text) ==
    LET traces == Append(r.agent_call_traces, _trace_entry(agent_name, call.status))
    IN  [r EXCEPT
            !.agent_call_traces = traces,
            !.pause_state = Some([conversation |-> r.conversation,
                                  turns |-> r.turns,
                                  agent_call_traces |-> traces,
                                  latest_outcome |-> r.latest_outcome,
                                  round_user_turn_index |-> r.round_user_turn_index,
                                  next_turn_index |-> r.turn_index,
                                  strategy_suggestions |-> r.strategy_suggestions]),
            !.status = "PAUSED",
            !.pending_question = Some([question |-> question_text, asked_by |-> asked_by,
                                       turn_index |-> r.turn_index]),
            !.call = Nothing,
            !.pc = "done"]

\* the default action an ASK_INFO request is replaced by
DefaultAction(is_user_turn) == IF is_user_turn THEN "PROPOSE_OFFER" ELSE "COUNTER_OFFER"

\* lines 201-203 and 284-286: reserve() returned False or there is no
\* question text, the turn goes on as a normal turn
Downgrade(r, call) ==
    IF r.turn_index % 2 = 1
    THEN AppendUserTurn(r, _override_action(call, DefaultAction(TRUE)))
    ELSE CounterSpoke(r, _override_action(call, DefaultAction(FALSE)))

\* reserve() returned True
Pause(r, call) ==
    IF r.turn_index % 2 = 1
    THEN PauseResult(r, "UserProxy", "USER", call,
                     _extract_question_text(call.message_text, call.action.payload))
    ELSE PauseResult(r, "Counterparty", "COUNTERPARTY", call,
                     _extract_question_text(call.message_text, call.action.payload))

\* variant: reserve() is called for an ASK_INFO request without question text
AfterReply_ReservesBlank(r, call, b) ==
    IF _extract_action(call).action_type = "ASK_INFO"
    THEN IF QuestionTextRaises(_extract_action(call).payload)
         THEN [r EXCEPT !.pc = "failed"]
         ELSE
         IF FastPathFalse(b) THEN Downgrade(r, call)
         ELSE [r EXCEPT !.call = Some(call), !.pc = "reserve_lock"]
    ELSE IF r.turn_index % 2 = 1 THEN AppendUserTurn(r, call) ELSE CounterSpoke(r, call)

\* lines 153-156 and 236-239: what follows the agent's reply, up to the
\* lock of reserve()
AfterReply(r, call, b) ==
    IF _extract_action(call).action_type = "ASK_INFO"
    THEN IF QuestionTextRaises(_extract_action(call).payload)
         THEN [r EXCEPT !.pc = "failed"]
         ELSE
         IF ~IsBlank(_extract_question_text(call.message_text, _extract_action(call).payload))
         THEN IF FastPathFalse(b) THEN Downgrade(r, call)
              ELSE [r EXCEPT !.call = Some(call), !.pc = "reserve_lock"]
         ELSE Downgrade(r, call)
    ELSE IF r.turn_index % 2 = 1 THEN AppendUserTurn(r, call) ELSE CounterSpoke(r, call)

\* variant: a loop that stops on PASS only
Terminal_PassOnly(outcome) == outcome = "PASS"

\* line 324
Terminal(outcome) == outcome \in {"PASS", "FAIL"}

\* variant: the outcome is written into the first turn
Backfill_First(turns, round_user_turn_index, outcome) ==
    IF Len(turns) = 0 THEN turns ELSE [turns EXCEPT ![1].outcome = outcome]

\* lines 308-310: the outcome written into the pending user-turn slot
Backfill(turns, round_user_turn_index, outcome) ==
    IF round_user_turn_index = Nothing THEN turns
    ELSE [turns EXCEPT ![round_user_turn_index[1] + 1].outcome = outcome]

\* variant: a NEUTRAL verdict is treated as no verdict
ResolveOutcome_NeutralFalls(world_outcome, conversation) ==
    IF world_outcome # Nothing /\ world_outcome[1] # "NEUTRAL" THEN world_outcome[1]
    ELSE _evaluate_outcome(TheCase, conversation)

\* line 306
ResolveOutcome(world_outcome, conversation) ==
    IF world_outcome # Nothing THEN world_outcome[1]
    ELSE _evaluate_outcome(TheCase, conversation)

\* lines 305-325: the verdict is in, the counterparty turn is appended
CounterTurn(r, world) ==
    LET latest == ResolveOutcome(world.outcome, r.conversation)
        call == r.call[1]
        r1 == [r EXCEPT !.latest_outcome = latest]
        turns == Append(Backfill(r.turns, r.round_user_turn_index, latest),
                        NewTurn(r1, "COUNTERPARTY", call.message_text, r.conversation, call.action))
        r2 == [r1 EXCEPT
                  !.agent_call_traces = Append(@, _trace_entry("WorldAgent", world.status)),
                  !.round_user_turn_index = Nothing,
                  !.turns = turns,
                  !.call = Nothing]
    IN  IF Terminal(latest) THEN [r2 EXCEPT !.pc = "await_extract"] ELSE NextIteration(r2)

\* variant: the summary call leaves no trace entry
CompletedResult_NoTrace(r, summary_status) ==
    [r EXCEPT
        !.status = "COMPLETED",
        !.summary = Some(summary_status),
        !.pc = "done"]

\* lines 345-371: the COMPLETED result
CompletedResult(r, summary_status) ==
    [r EXCEPT
        !.agent_call_traces = Append(@, _trace_entry("WorldAgent", summary_status)),
        !.status = "COMPLETED",
        !.summary = Some(summary_status),
        !.pc = "done"]

----------------------------------------------------------------------------
(* Persistence: what the routes store for a result *)

\* safe_json_dumps / safe_json_loads of an action: an ActionType member is
\* written as its value and read back as a plain string
JsonAction(a) ==
    [a EXCEPT !.type = IF a.type.kind = "enum" THEN StrType("", a.type.tag, FALSE, FALSE)
                       ELSE a.type]

\* safe_json_dumps / safe_json_loads of a list of Turn records
JsonTurns(turns) == [k \in 1..Len(turns) |-> [turns[k] EXCEPT !.action = JsonAction(@)]]

\* model_to_dict(result.run) as stored by RunRepository
RunData(r, pending_question_id) ==
    [run_id |-> r.run_id, seed |-> r.seed, turns |-> JsonTurns(r.turns),
     outcome |-> r.latest_outcome, status |-> r.status, summary |-> r.summary,
     pending_question_id |-> pending_question_id, max_turns |-> r.max_turns,
     max_questions |-> budgets[r.budget].max_questions]

\* result.trace_bundle as stored by TraceRepository (turn_traces repeats the
\* run's turns)
TraceBundle(r) ==
    [pause_state |-> IF r.pause_state = Nothing THEN Nothing
                     ELSE Some([r.pause_state[1] EXCEPT !.turns = JsonTurns(@)]),
     max_questions |-> budgets[r.budget].max_questions,
     strategy_suggestions |-> r.strategy_suggestions,
     agent_call_traces |-> r.agent_call_traces]

\* simulate lines 223-241 and answer_question lines 311-328: the question
\* (if the result carries one), the run and the trace are written
Persist(r) ==
    /\ question_repo' =
          IF r.pending_question = Nothing THEN question_repo
          ELSE Append(question_repo,
                      [run_id |-> r.run_id, status |-> "PENDING",
                       asked_by |-> r.pending_question[1].asked_by,
                       question |-> r.pending_question[1].question])
    /\ run_repo' = (r.run_id :> RunData(r, IF r.pending_question = Nothing THEN Nothing
                                           ELSE Some(Len(question_repo) + 1))) @@ run_repo
    /\ trace_repo' = (r.run_id :> TraceBundle(r)) @@ trace_repo
    /\ UNCHANGED clarifications

----------------------------------------------------------------------------
(* The run scheduler: SimulationEngine.run_stream, driven by simulate *)

\* variant: a semaphore that never blocks
SlotFree_Always(sem) == TRUE

\* asyncio.Semaphore: a slot can be taken
SlotFree(sem) == sem > 0

\* variant: the consumer is given the completed task that was created first
NextCompleted_Lowest(queue) ==
    CHOOSE i \in {queue[k] : k \in 1..Len(queue)} :
        \A k \in 1..Len(queue) : i <= queue[k]

\* asyncio.as_completed: the task the consumer is given next
NextCompleted(queue) == Head(queue)

\* a task that holds a pool slot (it is inside `async with semaphore`)
HoldsSlot(r) == r.pc \notin {"sem_wait", "done", "failed", "cancelled", "gone", "discarded"}

\* variant: the finally block cancels only the tasks that are inside the
\* turn engine, a task that waits for a slot is left alone
CancelTasks_NotWaiting(s, invs) ==
    [i \in 1..Len(invs) |->
        IF i \notin Tasks(s) \/ invs[i].pc \in {"gone", "failed", "sem_wait"} THEN invs[i]
        ELSE IF invs[i].pc = "done" THEN Tombstone(invs[i], "discarded")
        ELSE Tombstone(invs[i], "cancelled")]

\* lines 97-100: every task that is not done is cancelled.  A cancelled task
\* leaves `async with semaphore` (and the budget's lock) on its way out.
CancelTasks(s, invs) ==
    [i \in 1..Len(invs) |->
        IF i \notin Tasks(s) \/ invs[i].pc \in {"gone", "failed"} THEN invs[i]
        ELSE IF invs[i].pc = "done" THEN Tombstone(invs[i], "discarded")
        ELSE Tombstone(invs[i], "cancelled")]

SlotsReturned(s, invs) == Cardinality({i \in Tasks(s) : HoldsSlot(invs[i])})

UnlockCancelled(s, invs, bs) ==
    [b \in 1..Len(bs) |->
        IF \E i \in Tasks(s) : invs[i].budget = b /\ invs[i].pc \in {"reserve_check", "reserve_incr"}
        THEN [bs[b] EXCEPT !.locked = FALSE] ELSE bs[b]]

\* simulate, lines 200-215, and run_stream, lines 82-92: the budget, the
\* semaphore and one task per offset are created
RunStream ==
    /\ stream.state # "running"
    /\ streams < request.calls
    /\ LET total_runs == TotalRuns(request.runs)
           base_seed == _base_seed(request.case_id)
           pool == PoolSize(EngineMaxParallel(max_parallel))
           budget == Len(budgets) + 1
       IN  /\ budgets' = Append(budgets, QuestionBudget(request.max_questions, 0))
           /\ inv' = inv \o [o \in 1..total_runs |->
                                BlankInv("task", streams + 1, budget, Len(inv) + o,
                                         TaskSeed(base_seed, o - 1))]
           /\ stream' = [state |-> "running", sem |-> pool, pool |-> pool,
                         first |-> Len(inv) + 1, total |-> total_runs,
                         queue |-> <<>>, yielded |-> <<>>, budget |-> budget,
                         base_seed |-> base_seed]
    /\ streams' = streams + 1
    /\ UNCHANGED <<request, max_parallel, db, env>>

\* the effects of a step of invocation i that takes it to r2.  A task that
\* returns or raises leaves `async with semaphore` and enters the
\* as_completed queue; a resume_run that returns is persisted by
\* answer_question in the same stretch of code.
Step(i, r2) ==
    /\ IF r2.pc \in {"done", "failed"}
       THEN IF r2.kind = "task"
            THEN /\ inv' = [inv EXCEPT ![i] = IF r2.pc = "done" THEN r2
                                              ELSE Tombstone(r2, "failed")]
                 /\ stream' = [stream EXCEPT !.sem = @ + 1, !.queue = Append(@, i)]
                 /\ UNCHANGED db
            ELSE /\ inv' = [inv EXCEPT ![i] = Tombstone(r2, IF r2.pc = "done" THEN "gone"
                                                            ELSE "failed")]
                 /\ IF r2.pc = "done" THEN Persist(r2) ELSE UNCHANGED db
                 /\ UNCHANGED stream
       ELSE /\ inv' = [inv EXCEPT ![i] = r2]
            /\ UNCHANGED <<stream, db>>
    /\ UNCHANGED <<request, max_parallel, streams>>

\* line 89: a waiting task takes a slot and _run_single runs to its first await
AcquireSlot(i) ==
    /\ inv[i].pc = "sem_wait"
    /\ SlotFree(stream.sem)
    /\ inv' = [inv EXCEPT ![i] = StartEngine(inv[i], request.max_turns, Nothing, Nothing)]
    /\ stream' = [stream EXCEPT !.sem = @ - 1]
    /\ UNCHANGED <<request, max_parallel, streams, budgets, db, env>>

\* an agent call may fail at most MaxFaults times in a behaviour
FaultAllowed(ok) == ok \/ env.faults > 0
CountFault(ok) == env' = IF ok THEN env ELSE [env EXCEPT !.faults = @ - 1]

\* line 148: the user agent's call returns
UserReturns(i, call) ==
    /\ inv[i].pc = "await_user"
    /\ FaultAllowed(call.status = "PASS")
    /\ Step(i, AfterReply(inv[i], call, budgets[inv[i].budget]))
    /\ CountFault(call.status = "PASS")
    /\ UNCHANGED budgets

\* line 231: the counterparty agent's reply arrives
CounterReturns(i, reply) ==
    /\ inv[i].pc = "await_counter"
    /\ FaultAllowed(reply.ok)
    /\ Step(i, AfterReply(inv[i], roleplay(reply, CounterFallback, "COUNTER_OFFER"),
                          budgets[inv[i].budget]))
    /\ CountFault(reply.ok)
    /\ UNCHANGED budgets

\* reserve(), line 39: the lock is taken
ReserveLock(i) ==
    /\ inv[i].pc = "reserve_lock"
    /\ LockFree(budgets[inv[i].budget])
    /\ budgets' = [budgets EXCEPT ![inv[i].budget].locked = TRUE]
    /\ Step(i, [inv[i] EXCEPT !.pc = "reserve_check"])
    /\ UNCHANGED env

\* reserve(), lines 40-41: under the lock, the budget is compared; when it is
\* exhausted reserve() returns False and the turn goes on as a normal turn
ReserveCheck(i) ==
    /\ inv[i].pc = "reserve_check"
    /\ IF Exhausted(budgets[inv[i].budget])
       THEN /\ budgets' = [budgets EXCEPT ![inv[i].budget].locked = FALSE]
            /\ Step(i, Downgrade(inv[i], inv[i].call[1]))
       ELSE /\ UNCHANGED budgets
            /\ Step(i, [inv[i] EXCEPT !.pc = "reserve_incr"])
    /\ UNCHANGED env

\* reserve(), lines 42-43: used is incremented, reserve() returns True and
\* _run_single returns the PAUSED result
ReserveIncr(i) ==
    /\ inv[i].pc = "reserve_incr"
    /\ budgets' = [budgets EXCEPT ![inv[i].budget].used = @ + 1,
                                  ![inv[i].budget].locked = FALSE]
    /\ Step(i, Pause(inv[i], inv[i].call[1]))
    /\ UNCHANGED env

\* line 301: the world agent's verdict arrives
WorldReturns(i, reply) ==
    /\ inv[i].pc = "await_world"
    /\ FaultAllowed(reply.ok)
    /\ Step(i, CounterTurn(inv[i], evaluate_outcome(reply)))
    /\ CountFault(reply.ok)
    /\ UNCHANGED budgets

\* line 335: the extraction call returns
ExtractReturns(i, ok) ==
    /\ inv[i].pc = "await_extract"
    /\ FaultAllowed(ok)
    /\ Step(i, [inv[i] EXCEPT
                  !.agent_call_traces = Append(@, _trace_entry("WorldAgent", IF ok THEN "PASS" ELSE "FAIL")),
                  !.pc = "await_summary"])
    /\ CountFault(ok)
    /\ UNCHANGED budgets

\* line 340: the summary call returns and _run_single returns COMPLETED
SummaryReturns(i, ok) ==
    /\ inv[i].pc = "await_summary"
    /\ FaultAllowed(ok)
    /\ Step(i, CompletedResult(inv[i], IF ok THEN "PASS" ELSE "FAIL"))
    /\ CountFault(ok)
    /\ UNCHANGED budgets

\* an exception that _build_call does not catch (it is raised outside its
\* try block, for example by PromptRegistry.render) leaves _run_single
Raises(i) ==
    /\ inv[i].pc \in {"await_user", "await_counter", "await_world",
                      "await_extract", "await_summary"}
    /\ env.faults > 0
    /\ Step(i, [inv[i] EXCEPT !.pc = "failed"])
    /\ env' = [env EXCEPT !.faults = @ - 1]
    /\ UNCHANGED budgets

\* lines 94-96 and simulate lines 216-245: the consumer is given the next
\* completed task.  Its result is yielded and persisted; if the task raised,
\* `await task` raises, the finally block cancels what is not done and the
\* exception leaves run_stream.
Yield ==
    /\ stream.state = "running"
    /\ Len(stream.queue) > 0
    /\ LET i == NextCompleted(stream.queue)
           rest == SelectSeq(stream.queue, LAMBDA j : j # i)
       IN  IF inv[i].pc = "failed"
           THEN /\ inv' = CancelTasks(stream, inv)
                /\ budgets' = UnlockCancelled(stream, inv, budgets)
                /\ stream' = [stream EXCEPT !.state = "raised", !.queue = rest,
                                            !.sem = @ + SlotsReturned(stream, inv)]
                /\ UNCHANGED db
           ELSE /\ Persist(inv[i])
                /\ inv' = [inv EXCEPT ![i] = Tombstone(inv[i], "gone")]
                /\ stream' = [stream EXCEPT
                                 !.queue = rest,
                                 !.yielded = Append(@, i),
                                 !.state = IF Len(stream.yielded) + 1 = stream.total
                                           THEN "finished" ELSE "running"]
                /\ UNCHANGED budgets
    /\ UNCHANGED <<request, max_parallel, streams, env>>

\* the consumer stops consuming (the generator is closed or the request is
\* cancelled): the finally block cancels every task that is not done
Close ==
    /\ stream.state = "running"
    /\ inv' = CancelTasks(stream, inv)
    /\ budgets' = UnlockCancelled(stream, inv, budgets)
    /\ stream' = [stream EXCEPT !.state = "closed",
                                !.sem = @ + SlotsReturned(stream, inv)]
    /\ UNCHANGED <<request, max_parallel, streams, db, env>>

----------------------------------------------------------------------------
(* answer_question and SimulationEngine.resume_run *)

\* variant: only the questions answered before this request are counted
count_for_session_Answered ==
    Cardinality({q \in 1..Len(question_repo) : question_repo[q].status = "ANSWERED"})

\* PendingQuestionRepository.count_for_session: every question of the session
count_for_session == Len(question_repo)

\* answer_question lines 272-303 and resume_run: the request is accepted, the
\* clarification and the answer are stored, a budget is built from the stored
\* max_questions and the session's question count, and _run_single runs from
\* the stored pause state to its first await
AnswerQuestion(run_id, question_id) ==
    /\ env.resumes > 0
    /\ run_id \in DOMAIN run_repo
    /\ run_repo[run_id].status = "PAUSED"
    /\ question_id \in 1..Len(question_repo)
    /\ question_repo[question_id].run_id = run_id
    /\ clarifications' = Append(clarifications, question_id)
    /\ question_repo' = [question_repo EXCEPT ![question_id].status = "ANSWERED"]
    /\ LET run_data == run_repo[run_id]
           trace_bundle == trace_repo[run_id]
           budget == Len(budgets) + 1
       IN  /\ budgets' = Append(budgets, QuestionBudget(Some(run_data.max_questions),
                                                        count_for_session))
           /\ inv' = Append(inv,
                        StartEngine(BlankInv("resume", 0, budget, run_id, run_data.seed),
                                    IF run_data.max_turns # 0 THEN run_data.max_turns
                                    ELSE DEFAULT_RESUME_MAX_TURNS,
                                    trace_bundle.pause_state,
                                    Some(trace_bundle.strategy_suggestions)))
    /\ env' = [env EXCEPT !.resumes = @ - 1]
    /\ UNCHANGED <<request, max_parallel, stream, streams, run_repo, trace_repo>>

\* StrategyRegistry.load: strategy files have appeared in the strategy
\* directory of an engine that had found none
StrategiesAdded ==
    /\ env.strategies = 0
    /\ env' = [env EXCEPT !.strategies = 1]
    /\ UNCHANGED <<request, max_parallel, stream, streams, inv, budgets, db>>

----------------------------------------------------------------------------

Next ==
    \/ RunStream
    \/ \E i \in 1..Len(inv) : AcquireSlot(i)
    \/ \E i \in 1..Len(inv) : \E call \in UserCalls : UserReturns(i, call)
    \/ \E i \in 1..Len(inv) : \E reply \in CounterReplies : CounterReturns(i, reply)
    \/ \E i \in 1..Len(inv) : ReserveLock(i)
    \/ \E i \in 1..Len(inv) : ReserveCheck(i)
    \/ \E i \in 1..Len(inv) : ReserveIncr(i)
    \/ \E i \in 1..Len(inv) : \E reply \in WorldReplies : WorldReturns(i, reply)
    \/ \E i \in 1..Len(inv) : \E ok \in BOOLEAN : ExtractReturns(i, ok)
    \/ \E i \in 1..Len(inv) : \E ok \in BOOLEAN : SummaryReturns(i, ok)
    \/ \E i \in 1..Len(inv) : Raises(i)
    \/ Yield
    \/ Close
    \/ \E run_id \in DOMAIN run_repo : \E q \in 1..Len(question_repo) :
          AnswerQuestion(run_id, q)
    \/ StrategiesAdded

Spec == Init /\ [][Next]_vars

----------------------------------------------------------------------------
(* Seeds: task creation of run_stream alone, for every case identifier and *)
(* for `runs` values that include zero and a negative one                   *)

InitSeeds ==
    /\ request \in [calls : 1..MaxStreams, runs : -1..MaxRuns, max_turns : {1},
                    max_questions : {Nothing}, case_id : CaseIds]
    /\ max_parallel \in 0..MaxParallel
    /\ env = [resumes |-> 0, faults |-> 0, strategies |-> 1]
    /\ stream = NoStream
    /\ streams = 0
    /\ inv = <<>>
    /\ budgets = <<>>
    /\ run_repo = <<>>
    /\ trace_repo = <<>>
    /\ question_repo = <<>>
    /\ clarifications = <<>>

NextSeeds ==
    \/ RunStream
    \/ \E i \in 1..Len(inv) : AcquireSlot(i)
    \/ Close

SpecSeeds == InitSeeds /\ [][NextSeeds]_vars

----------------------------------------------------------------------------
(* The fallback evaluator alone: line 306 with no verdict from the arbiter, *)
(* for cases of either direction, with and without a target and a           *)
(* reservation, and for conversations whose counterparty texts carry up to  *)
(* MaxNumbers numbers.  `request.case` is the case and the one invocation   *)
(* holds the conversation and receives latest_outcome.                      *)

Amounts == {80000, 85000, 90000, 100000, 110000, 120000}

\* the texts a counterparty message can have
OfferTexts ==
    {Text("counter", nums) : nums \in UNION {[1..n -> Amounts] : n \in 0..MaxNumbers}}

\* the issue lists and issue weights of the cases: one issue, or two issues
\* of opposite directions of which the second listed has the highest weight
EvalIssues ==
    { [issues  |-> << [issue_id |-> "price", direction |-> d] >>,
       weights |-> [i \in {"price"} |-> 1]] : d \in {"MINIMIZE", "MAXIMIZE"} }
    \cup
    { [issues  |-> << [issue_id |-> "price", direction |-> d],
                      [issue_id |-> "scope",
                       direction |-> IF d = "MINIMIZE" THEN "MAXIMIZE" ELSE "MINIMIZE"] >>,
       weights |-> [i \in {"price", "scope"} |-> IF i = "scope" THEN 2 ELSE 1]] :
      d \in {"MINIMIZE", "MAXIMIZE"} }

\* CaseSnapshot values that differ in what _desired_values reads
EvalCases ==
    { [issues      |-> i.issues,
       weights     |-> i.weights,
       target      |-> t,
       reservation |-> r] :
      i \in EvalIssues,
      t \in { [type |-> "SINGLE_VALUE", value |-> 100000],
              [type |-> "OFFER_VECTOR", value |-> [price |-> 100000]],
              [type |-> "OFFER_VECTOR", value |-> [scope |-> 100000]] },
      r \in { [type |-> "SINGLE_VALUE", value |-> 85000],
              [type |-> "SINGLE_VALUE", value |-> 115000],
              [type |-> "OFFER_VECTOR", value |-> [scope |-> 85000]] } }

\* the conversation list of line 126 when the world call of a round is awaited
EvalConversations ==
    LET U == [speaker |-> "USER", text |-> Text("user", <<120000>>)]
        C(t) == [speaker |-> "COUNTERPARTY", text |-> t]
    IN  {<<>>, <<U>>}
        \cup UNION { { <<C(t)>>, <<U, C(t)>>, <<C(t), U>>,
                       <<C(Text("counter", <<80000, 120000>>)), U, C(t)>> } : t \in OfferTexts }

InitEvaluator ==
    /\ request \in [case : EvalCases]
    /\ max_parallel = 0
    /\ env = [resumes |-> 0, faults |-> 0, strategies |-> 1]
    /\ stream = NoStream
    /\ streams = 0
    /\ \E conversation \in EvalConversations :
          inv = << [BlankInv("task", 0, 0, 1, 0) EXCEPT
                      !.pc = "await_world", !.conversation = conversation] >>
    /\ budgets = <<>>
    /\ run_repo = <<>>
    /\ trace_repo = <<>>
    /\ question_repo = <<>>
    /\ clarifications = <<>>

\* line 306, right-hand operand of `or`
Evaluate ==
    /\ inv[1].pc = "await_world"
    /\ inv' = [inv EXCEPT ![1].latest_outcome = _evaluate_outcome(request.case, inv[1].conversation),
                          ![1].pc = "evaluated"]
    /\ UNCHANGED <<request, max_parallel, stream, streams, budgets, db, env>>

NextEvaluator == Evaluate

SpecEvaluator == InitEvaluator /\ [][NextEvaluator]_vars

----------------------------------------------------------------------------
(* Action types as character strings.  _normalize_action_type and          *)
(* _extract_action applied to what an agent can report for an action: the  *)
(* ActionType member, or a string written with white space around it, with *)
(* a namespace prefix and in either case.  A string is the sequence of its *)
(* characters.                                                             *)

Whitespace == {" ", "\t"}

LowerCase == <<"a", "c", "e", "f", "i", "k", "n", "o", "p", "r", "s", "t", "u", "y">>
UpperCase == <<"A", "C", "E", "F", "I", "K", "N", "O", "P", "R", "S", "T", "U", "Y">>

\* str.upper and str.lower
upper(s) ==
    [k \in 1..Len(s) |->
        IF \E j \in 1..Len(LowerCase) : LowerCase[j] = s[k]
        THEN UpperCase[CHOOSE j \in 1..Len(LowerCase) : LowerCase[j] = s[k]]
        ELSE s[k]]
lower(s) ==
    [k \in 1..Len(s) |->
        IF \E j \in 1..Len(UpperCase) : UpperCase[j] = s[k]
        THEN LowerCase[CHOOSE j \in 1..Len(UpperCase) : UpperCase[j] = s[k]]
        ELSE s[k]]

RECURSIVE lstrip(_), rstrip(_)
lstrip(s) == IF s # <<>> /\ Head(s) \in Whitespace THEN lstrip(Tail(s)) ELSE s
rstrip(s) == IF s # <<>> /\ s[Len(s)] \in Whitespace
             THEN rstrip(SubSeq(s, 1, Len(s) - 1)) ELSE s

\* variant: only the leading white space is removed
strip_Left(s) == lstrip(s)

\* str.strip
strip(s) == rstrip(lstrip(s))

\* text.split(".")[-1], which is text itself when it holds no "."
LastPart(s) ==
    LET dots == {k \in 1..Len(s) : s[k] = "."}
    IN  IF dots = {} THEN s
        ELSE SubSeq(s, (CHOOSE k \in dots : \A j \in dots : j <= k) + 1, Len(s))

\* the spelling of the ActionType values and of the namespace
Spell ==
    [ASK_INFO      |-> <<"A", "S", "K", "_", "I", "N", "F", "O">>,
     ACCEPT        |-> <<"A", "C", "C", "E", "P", "T">>,
     COUNTER_OFFER |-> <<"C", "O", "U", "N", "T", "E", "R", "_", "O", "F", "F", "E", "R">>,
     PROPOSE_OFFER |-> <<"P", "R", "O", "P", "O", "S", "E", "_", "O", "F", "F", "E", "R">>,
     ActionType    |-> <<"A", "c", "t", "i", "o", "n", "T", "y", "p", "e">>]

ActionTags == {"ASK_INFO", "ACCEPT", "COUNTER_OFFER", "PROPOSE_OFFER"}

\* SimulationEngine._normalize_action_type on the value itself: a member
\* [kind "enum", value], a string [kind "str", value] or None [kind "none"]
NormalizeChars(value) ==
    IF value.kind = "enum" THEN value.value
    ELSE IF value.kind = "str" THEN upper(LastPart(strip(value.value)))
    ELSE <<>>

\* the value that a reported type stands for, written with `left` blanks
\* before it and `right` tabs after it when it is padded
Chars(type, left, right) ==
    IF type.kind = "enum" THEN [kind |-> "enum", value |-> Spell[type.tag]]
    ELSE IF type.kind = "str"
    THEN LET tag == IF type.lower THEN lower(Spell[type.tag]) ELSE Spell[type.tag]
             name == IF type.ns = "" THEN tag ELSE Spell[type.ns] \o <<".">> \o tag
         IN  [kind |-> "str",
              value |-> IF type.pad THEN [k \in 1..left |-> " "] \o name \o [k \in 1..right |-> "\t"]
                        ELSE name]
    ELSE [kind |-> "none"]

\* the types an agent reports for an action
ReportedTypes ==
    {EnumType(t) : t \in ActionTags}
    \cup {StrType(ns, t, l, p) : ns \in {"", "ActionType"}, t \in ActionTags,
                                 l \in BOOLEAN, p \in BOOLEAN}

InitAction ==
    /\ request \in [type : ReportedTypes, left : 0..MaxPad, right : 0..MaxPad,
                    question : {EmptyText, Text("Q?", <<>>)}]
    /\ request.type.pad <=> request.left + request.right > 0
    /\ max_parallel = 0
    /\ env = [resumes |-> 0, faults |-> 0, strategies |-> 1]
    /\ stream = NoStream
    /\ streams = 0
    /\ inv = << [BlankInv("task", 0, 0, 1, 0) EXCEPT !.pc = "await_user"] >>
    /\ budgets = <<>>
    /\ run_repo = <<>>
    /\ trace_repo = <<>>
    /\ question_repo = <<>>
    /\ clarifications = <<>>

\* lines 148-153: the agent's call arrives and _extract_action reads it
ExtractAction ==
    /\ inv[1].pc = "await_user"
    /\ inv' = [inv EXCEPT
                  ![1].call = Some([message_text |-> Text("offer", <<>>), status |-> "PASS",
                                    action |-> Action(request.type, request.question)]),
                  ![1].pc = "extracted"]
    /\ UNCHANGED <<request, max_parallel, stream, streams, budgets, db, env>>

NextAction == ExtractAction

SpecAction == InitAction /\ [][NextAction]_vars

----------------------------------------------------------------------------
(* Pause and resume to completion: sessions of single runs in which every  *)
(* agent call returns a well-formed reply, the stream is consumed to its    *)
(* end, every pending question is answered, and an answer request is made   *)
(* only when no resume_run of the session is under way.  A session has      *)
(* `calls` simulate requests and as many answer requests as it can need.    *)

\* the replies of the counterparty's language model that validate and whose
\* question, if any, is a string
LiveCounterReplies ==
    {reply \in CounterReplies : reply.ok /\ IsString(reply.action.payload.question)}

\* the invocations a session can have: one task per simulate request and one
\* resume_run per answer request
LiveInvocations == 2 * MaxStreams + MaxQuestions

InitLive ==
    /\ request \in [calls : 1..MaxStreams, runs : {1}, max_turns : 1..MaxTurns,
                    max_questions : {Some(q) : q \in 0..MaxQuestions},
                    case_id : {TheCaseId}]
    /\ request.calls * request.max_turns * (1 + request.max_questions[1]) <= MaxTurns
    /\ max_parallel = 0
    /\ env = [resumes |-> request.calls + request.max_questions[1], faults |-> 0,
              strategies |-> 1]
    /\ stream = NoStream
    /\ streams = 0
    /\ inv = <<>>
    /\ budgets = <<>>
    /\ run_repo = <<>>
    /\ trace_repo = <<>>
    /\ question_repo = <<>>
    /\ clarifications = <<>>

\* the steps of invocation i: its agent calls return and reserve() proceeds
EngineStep(i) ==
    /\ i \in 1..Len(inv)
    /\ \/ AcquireSlot(i)
       \/ \E call \in UserCalls : UserReturns(i, call)
       \/ \E reply \in LiveCounterReplies : CounterReturns(i, reply)
       \/ ReserveLock(i)
       \/ ReserveCheck(i)
       \/ ReserveIncr(i)
       \/ \E reply \in WorldReplies : WorldReturns(i, reply)
       \/ ExtractReturns(i, TRUE)
       \/ SummaryReturns(i, TRUE)

\* answer_question for the question a paused run waits on, when no other
\* resume_run is under way
AnswerPending ==
    \E run_id \in DOMAIN run_repo : \E q \in 1..Len(question_repo) :
        /\ run_repo[run_id].pending_question_id = Some(q)
        /\ \A i \in 1..Len(inv) : inv[i].kind = "resume" => inv[i].pc \in {"gone", "failed"}
        /\ AnswerQuestion(run_id, q)

NextLive ==
    \/ RunStream
    \/ \E i \in 1..LiveInvocations : EngineStep(i)
    \/ Yield
    \/ AnswerPending

\* The event loop runs every task that is ready and every agent call
\* returns, so no invocation waits forever for a step it can take; the
\* simulate route consumes the stream until it ends; every pending question
\* is answered.
Fairness ==
    /\ \A i \in 1..LiveInvocations : WF_vars(EngineStep(i))
    /\ WF_vars(Yield)
    /\ WF_vars(AnswerPending)

SpecLive == InitLive /\ [][NextLive]_vars /\ Fairness

----------------------------------------------------------------------------
(* Properties *)

\* C1: reserve() is atomic.  A call that returns True found used < max and
\* raised used by exactly one; a call that returns False found used >= max
\* and left used unchanged; used changes in no other way; a budget whose max
\* is 0 is never locked and nobody waits for its lock.  So the budget of a
\* run_stream call never has used > max, and as soon as one of its
\* reservations has failed exactly max of them have succeeded.
ReserveAtomic ==
    [][LET ReturnedTrue(i) == inv[i].pc = "reserve_incr" /\ inv'[i].pc \in {"done", "gone"}
           ReturnedFalse(i) == /\ inv[i].pc = "reserve_check"
                               /\ inv'[i].pc \notin {"reserve_check", "reserve_incr", "cancelled"}
       IN  /\ \A i \in 1..Len(inv) :
                LET b == inv[i].budget
                IN  /\ ReturnedTrue(i) => /\ budgets[b].used < budgets[b].max_questions
                                          /\ budgets'[b].used = budgets[b].used + 1
                    /\ ReturnedFalse(i) => /\ budgets[b].used >= budgets[b].max_questions
                                           /\ budgets'[b].used = budgets[b].used
                                           /\ inv[i].kind = "task" =>
                                                 budgets[b].used = budgets[b].max_questions
                    /\ inv'[i].pc \in {"reserve_lock", "reserve_check", "reserve_incr"} =>
                          budgets'[b].max_questions > 0
                    /\ inv'[i].kind = "task" => budgets'[b].used <= budgets'[b].max_questions
           /\ \A b \in 1..Len(budgets) :
                /\ budgets'[b].used # budgets[b].used =>
                      \E i \in 1..Len(inv) : inv[i].budget = b /\ ReturnedTrue(i)
                /\ budgets'[b].locked => budgets'[b].max_questions > 0
      ]_vars

\* two runs of one run_stream call asked against a budget of one question:
\* one is paused, the other went on with a downgraded turn
ReserveContended ==
    \E i, j \in 1..Len(inv) :
        /\ i # j
        /\ inv[i].kind = "task" /\ inv[j].kind = "task"
        /\ inv[i].budget = inv[j].budget
        /\ budgets[inv[i].budget].max_questions = 1
        /\ budgets[inv[i].budget].used = 1
        /\ inv[i].pc = "done" /\ inv[i].status = "PAUSED"
        /\ inv[j].pc = "done" /\ inv[j].status = "COMPLETED"
        /\ Len(inv[j].turns) = 1
        /\ inv[j].turns[1].message_text = Text("offer", <<>>)
        /\ inv[j].turns[1].action = Action(StrType("", "PROPOSE_OFFER", FALSE, FALSE), EmptyText)
        /\ inv[j].agent_call_traces[1] = _trace_entry("UserProxy", "PASS")

\* C2: the number of questions stored for the session never exceeds the
\* max_questions of the session's request
SessionQuestionCap ==
    Len(question_repo) <= (IF request.max_questions = Nothing THEN 0
                           ELSE request.max_questions[1])

\* C3: every QuestionBudget has used <= max_questions
BudgetUsedWithinMax ==
    \A b \in 1..Len(budgets) : budgets[b].used <= budgets[b].max_questions

\* C4: in every result of the turn engine and in every stored run the turn
\* indices are 1, 2, ..., n in order, odd turns are USER turns and even turns
\* are COUNTERPARTY turns
TurnsWellIndexed ==
    LET WellIndexed(turns) ==
            \A k \in 1..Len(turns) :
                /\ turns[k].turn_index = k
                /\ turns[k].speaker = IF k % 2 = 1 THEN "USER" ELSE "COUNTERPARTY"
    IN  /\ \A i \in 1..Len(inv) : inv[i].pc = "done" => WellIndexed(inv[i].turns)
        /\ \A id \in DOMAIN run_repo : WellIndexed(run_repo[id].turns)
        /\ \A id \in DOMAIN trace_repo :
              trace_repo[id].pause_state # Nothing =>
                  WellIndexed(trace_repo[id].pause_state[1].turns)

\* a run that was paused, resumed and completed with at least three turns
ResumedRunCompleted ==
    \E id \in DOMAIN run_repo :
        /\ run_repo[id].status = "COMPLETED"
        /\ Len(run_repo[id].turns) >= 3
        /\ \E c \in 1..Len(clarifications) : question_repo[clarifications[c]].run_id = id

\* C5 as stated: the run a resume_run call returns repeats the turns of the
\* pause state it started from, identical in every field
ResumeKeepsTurnsIdentical ==
    [][\A i \in 1..Len(inv) :
          (inv[i].kind = "resume" /\ inv[i].pc # "gone" /\ inv'[i].pc = "gone") =>
              LET pre == inv[i].resume_state[1].turns
                  post == run_repo'[inv[i].run_id].turns
              IN  /\ Len(post) >= Len(pre)
                  /\ \A k \in 1..Len(pre) : post[k] = pre[k]
      ]_vars

\* C5: the run a resume_run call returns repeats the turns of the pause state
\* it started from, identical in every field, with one exception: when the
\* pause happened on a counterparty turn, the outcome of the last turn before
\* the pause (a user turn) is the outcome of the counterparty turn that
\* follows it in the resumed run
ResumeKeepsTurns ==
    [][\A i \in 1..Len(inv) :
          (inv[i].kind = "resume" /\ inv[i].pc # "gone" /\ inv'[i].pc = "gone") =>
              LET pre == inv[i].resume_state[1].turns
                  post == run_repo'[inv[i].run_id].turns
                  on_user == inv[i].resume_state[1].next_turn_index % 2 = 1
              IN  /\ Len(post) >= Len(pre)
                  /\ \A k \in 1..Len(pre) :
                        \/ post[k] = pre[k]
                        \/ /\ ~on_user
                           /\ k = Len(pre)
                           /\ pre[k].speaker = "USER"
                           /\ Len(post) > Len(pre)
                           /\ post[k] = [pre[k] EXCEPT !.outcome = post[k + 1].outcome]
      ]_vars

\* a run that paused on its second turn (the counterparty asked), was
\* resumed and completed there with PASS, which is now the outcome of turn 1
ResumedAfterCounterpartyPause ==
    \E q \in 1..Len(question_repo) :
        LET id == question_repo[q].run_id
        IN  /\ question_repo[q].asked_by = "COUNTERPARTY"
            /\ question_repo[q].status = "ANSWERED"
            /\ run_repo[id].status = "COMPLETED"
            /\ Len(run_repo[id].turns) = 2
            /\ run_repo[id].turns[1].outcome = "PASS"

\* C6: a counterparty turn whose outcome is PASS or FAIL is the last turn of
\* its run, and the engine makes no user or counterparty call after it
EarlyTermination ==
    LET Ends(turns) ==
            \A k \in 1..Len(turns) :
                (turns[k].speaker = "COUNTERPARTY" /\ turns[k].outcome \in {"PASS", "FAIL"})
                    => k = Len(turns)
        Resolved(turns) ==
            /\ Len(turns) > 0
            /\ turns[Len(turns)].speaker = "COUNTERPARTY"
            /\ turns[Len(turns)].outcome \in {"PASS", "FAIL"}
    IN  /\ \A i \in 1..Len(inv) :
              /\ Ends(inv[i].turns)
              /\ Resolved(inv[i].turns) =>
                    inv[i].pc \in {"await_extract", "await_summary", "done"}
        /\ \A id \in DOMAIN run_repo :
              /\ Ends(run_repo[id].turns)
              /\ Resolved(run_repo[id].turns) => run_repo[id].status = "COMPLETED"

\* a run of more than two turns completed at turn 2 on the verdict of the
\* fallback evaluator (the world agent's call failed)
TerminatedByEvaluator ==
    \E i \in 1..Len(inv) :
        /\ inv[i].pc = "done"
        /\ inv[i].status = "COMPLETED"
        /\ inv[i].max_turns > 2
        /\ Len(inv[i].turns) = 2
        /\ inv[i].turns[2].outcome = "PASS"
        /\ inv[i].agent_call_traces[3] = _trace_entry("WorldAgent", "FAIL")

\* C7 as stated: (see DowngradeNoPause) with max_turns = 4 and
\* max_questions = 0 a run whose user agent always asked has exactly 4 turns
DowngradedRunHasFourTurns ==
    \A i \in 1..Len(inv) :
        LET r == inv[i]
            AlwaysAsked ==
                /\ \A k \in 1..Len(r.turns) :
                      r.turns[k].speaker = "USER" =>
                          r.turns[k].action = Action(StrType("", "PROPOSE_OFFER", FALSE, FALSE), EmptyText)
                /\ \A k \in 1..Len(r.agent_call_traces) :
                      r.agent_call_traces[k].agent_name = "UserProxy" =>
                          r.agent_call_traces[k].validation_result = "PASS"
        IN  (r.pc = "done" /\ r.max_turns = 4 /\ budgets[r.budget].max_questions = 0 /\ AlwaysAsked)
                => r.status = "COMPLETED" /\ Len(r.turns) = 4 /\ question_repo = <<>>

\* C7: an ASK_INFO request whose reservation fails or whose question text is
\* empty does not pause the run and is recorded as PROPOSE_OFFER (user) or
\* COUNTER_OFFER (counterparty): no recorded turn is an ASK_INFO turn, no run
\* pauses on a budget of 0, no question is blank, and a failed reservation
\* is followed by the turn with the default action.  With max_turns = 4 and
\* max_questions = 0 a run whose user agent always asked completes with 4
\* turns, or with fewer when its last turn is a counterparty turn that
\* resolved to PASS or FAIL, and no question is emitted.
DowngradeNoPause ==
    /\ [](/\ \A i \in 1..Len(inv) :
               LET r == inv[i]
                   AlwaysAsked ==
                       /\ \A k \in 1..Len(r.turns) :
                             r.turns[k].speaker = "USER" =>
                                 r.turns[k].action = Action(StrType("", "PROPOSE_OFFER", FALSE, FALSE), EmptyText)
                       /\ \A k \in 1..Len(r.agent_call_traces) :
                             r.agent_call_traces[k].agent_name = "UserProxy" =>
                                 r.agent_call_traces[k].validation_result = "PASS"
               IN  /\ \A k \in 1..Len(r.turns) :
                         _normalize_action_type(r.turns[k].action.type) # "ASK_INFO"
                   /\ r.pc = "await_world" =>
                         _normalize_action_type(r.call[1].action.type) # "ASK_INFO"
                   /\ r.status = "PAUSED" =>
                         /\ budgets[r.budget].max_questions > 0
                         /\ ~IsBlank(r.pending_question[1].question)
                   /\ (r.pc = "done" /\ r.max_turns = 4
                          /\ budgets[r.budget].max_questions = 0 /\ AlwaysAsked) =>
                         /\ r.status = "COMPLETED"
                         /\ question_repo = <<>>
                         /\ \/ Len(r.turns) = 4
                            \/ /\ Len(r.turns) = 2
                               /\ r.turns[Len(r.turns)].outcome \in {"PASS", "FAIL"}
          /\ \A id \in DOMAIN run_repo :
               /\ \A k \in 1..Len(run_repo[id].turns) :
                     _normalize_action_type(run_repo[id].turns[k].action.type) # "ASK_INFO"
               /\ run_repo[id].status = "PAUSED" => run_repo[id].max_questions > 0
          /\ \A q \in 1..Len(question_repo) : ~IsBlank(question_repo[q].question))
    /\ [][\A i \in 1..Len(inv) :
             (/\ inv[i].pc = "reserve_check"
              /\ budgets[inv[i].budget].used >= budgets[inv[i].budget].max_questions
              /\ inv'[i].pc \notin {"reserve_check", "cancelled"}) =>
                 /\ inv'[i].status # "PAUSED"
                 /\ question_repo' = question_repo
                 /\ IF inv[i].turn_index % 2 = 1
                    THEN /\ Len(inv'[i].turns) = Len(inv[i].turns) + 1
                         /\ inv'[i].turns[Len(inv'[i].turns)].turn_index = inv[i].turn_index
                         /\ inv'[i].turns[Len(inv'[i].turns)].action.type
                               = StrType("", "PROPOSE_OFFER", FALSE, FALSE)
                    ELSE /\ inv'[i].pc = "await_world"
                         /\ inv'[i].call[1].action.type
                               = StrType("", "COUNTER_OFFER", FALSE, FALSE)
         ]_vars

\* with max_turns = 4 and max_questions = 0 a run whose user turns 1 and 3
\* were ASK_INFO requests completed with four turns
DowngradedRunCompleted ==
    \E i \in 1..Len(inv) :
        /\ inv[i].pc = "done"
        /\ inv[i].status = "COMPLETED"
        /\ inv[i].max_turns = 4
        /\ request.max_questions = Some(0)
        /\ Len(inv[i].turns) = 4
        /\ \A k \in {1, 3} :
              /\ inv[i].turns[k].action = Action(StrType("", "PROPOSE_OFFER", FALSE, FALSE), EmptyText)
              /\ inv[i].turns[k].message_text = Text("offer", <<>>)
        /\ \A k \in 1..Len(inv[i].agent_call_traces) :
              inv[i].agent_call_traces[k].validation_result = "PASS"

\* C8: every run_stream call creates max(1, runs) tasks; the task created for
\* offset o has the seed base + o, where base is the base seed of the case
\* identifier, the same in every call; the seeds of one call are distinct
SeedsDeterministic ==
    LET total == IF request.runs >= 1 THEN request.runs ELSE 1
        base == IF request.case_id.uuid THEN request.case_id.lo ELSE request.case_id.d8
    IN  /\ Len(inv) = streams * total
        /\ stream.state # "none" => stream.total = total /\ stream.base_seed = base
        /\ \A i \in 1..Len(inv) : inv[i].seed = base + ((i - 1) % total)
        /\ \A i, j \in Tasks(stream) : i # j => inv[i].seed # inv[j].seed
        /\ \A i, j \in 1..Len(inv) :
              (i - 1) % total = (j - 1) % total => inv[i].seed = inv[j].seed

\* a second run_stream call for the case has created two tasks with the
\* seeds of the first call's tasks
SeedsRepeated ==
    /\ streams = 2
    /\ request.runs = 2
    /\ Len(inv) = 4
    /\ inv[3].seed = inv[1].seed
    /\ inv[4].seed = inv[2].seed
    /\ inv[2].seed = inv[1].seed + 1

\* C9: the tasks of a run_stream call that are inside the turn engine are at
\* most max(1, max_parallel) of the engine, and the free slots plus the
\* slots held always add up to the pool size
PoolBounded ==
    LET holders == {i \in Tasks(stream) : HoldsSlot(inv[i])}
        engine_max_parallel == IF max_parallel = 0 THEN MAX_PARALLEL_RUNS ELSE max_parallel
    IN  stream.state # "none" =>
            /\ stream.pool = IF engine_max_parallel >= 1 THEN engine_max_parallel ELSE 1
            /\ Cardinality(holders) <= stream.pool
            /\ stream.sem >= 0
            /\ stream.sem + Cardinality(holders) = stream.pool
            /\ \A i \in 1..Len(inv) : HoldsSlot(inv[i]) /\ inv[i].kind = "task" => i \in Tasks(stream)

\* a pool of one slot: one task is in the turn engine, another one waits
PoolFull ==
    \E i, j \in Tasks(stream) :
        /\ stream.pool = 1
        /\ stream.sem = 0
        /\ inv[i].pc = "await_user"
        /\ inv[j].pc = "sem_wait"

\* C10: the result the consumer is given is that of the task that returned
\* first among the tasks whose results were not yet given, and a task that
\* returns is placed behind the tasks that returned before it
CompletionOrder ==
    [][/\ (stream'.first = stream.first /\ Len(stream'.yielded) = Len(stream.yielded) + 1) =>
             stream'.yielded[Len(stream'.yielded)] = stream.queue[1]
       /\ \A i \in Tasks(stream) :
             (stream'.first = stream.first /\ inv[i].pc \notin {"done", "failed"}
                 /\ inv'[i].pc \in {"done", "failed"}) =>
                 stream'.queue = Append(stream.queue, i)
      ]_vars

\* the task created second returned first and its result was given first
LaterTaskYieldedFirst ==
    /\ stream.total = 2
    /\ Len(stream.yielded) = 2
    /\ stream.yielded[1] = stream.first + 1
    /\ stream.yielded[2] = stream.first

\* C11: when the consumer stops consuming, every task of the stream that is
\* not done is cancelled, a task that waits for a slot included, and the
\* result of a task that was done but not yet given is discarded and nothing
\* is stored for it; from then on no task of the stream takes a step
CancellationComplete ==
    /\ [](stream.state = "closed" =>
             \A i \in Tasks(stream) : inv[i].pc \in {"gone", "failed", "cancelled", "discarded"})
    /\ [][/\ (stream.state = "running" /\ stream'.state = "closed") =>
                /\ \A i \in Tasks(stream) :
                      /\ inv[i].pc = "done" => inv'[i].pc = "discarded"
                      /\ inv[i].pc \notin {"done", "gone", "failed"} => inv'[i].pc = "cancelled"
                      /\ inv[i].pc \in {"gone", "failed"} => inv'[i] = inv[i]
                /\ db' = db
          /\ (stream.state = "closed" /\ stream'.first = stream.first) =>
                \A i \in Tasks(stream) : inv'[i] = inv[i]
         ]_vars

\* the consumer stopped after the first of two results: the other task,
\* which was still running or waiting, is cancelled
ClosedAfterFirstResult ==
    /\ stream.state = "closed"
    /\ stream.total = 2
    /\ Len(stream.yielded) = 1
    /\ \E i \in Tasks(stream) : inv[i].pc = "cancelled"

\* C12: a task that raised does not end its siblings: when the exception of
\* one task has reached the consumer, no other task of the stream was
\* cancelled and no finished result was dropped
SiblingsSurviveFailure ==
    stream.state = "raised" =>
        \A i \in Tasks(stream) : inv[i].pc \notin {"cancelled", "discarded"}

\* C13: a failing agent call does not end the run.  A failed counterparty
\* call yields the fallback message and the COUNTER_OFFER fallback action, a
\* failed verdict call yields the evaluator's outcome, a failed extraction or
\* summary call is stepped over, a failed user call is recorded as a turn;
\* each leaves a FAIL trace entry and the run at its next call or with its
\* result, and every result is COMPLETED or PAUSED
AgentFailureNotFatal ==
    /\ [](/\ \A i \in 1..Len(inv) :
               inv[i].pc = "done" => inv[i].status \in {"COMPLETED", "PAUSED"}
          /\ \A id \in DOMAIN run_repo : run_repo[id].status \in {"COMPLETED", "PAUSED"})
    /\ [][\A i \in 1..Len(inv) :
             LET r == inv'[i]
                 LastTrace == r.agent_call_traces[Len(r.agent_call_traces)]
             IN  /\ (inv[i].pc = "await_counter" /\ CounterReturns(i, [ok |-> FALSE])) =>
                       /\ r.pc = "await_world"
                       /\ r.call[1].message_text = CounterFallback
                       /\ r.call[1].action = Action(StrType("", "COUNTER_OFFER", FALSE, FALSE), EmptyText)
                       /\ LastTrace = _trace_entry("Counterparty", "FAIL")
                 /\ (inv[i].pc = "await_world" /\ WorldReturns(i, [ok |-> FALSE])) =>
                       /\ r.pc \in {"await_user", "await_counter", "await_extract"}
                       /\ r.latest_outcome = _evaluate_outcome(TheCase, inv[i].conversation)
                       /\ r.turns[Len(r.turns)].turn_index = inv[i].turn_index
                       /\ LastTrace = _trace_entry("WorldAgent", "FAIL")
                 /\ (inv[i].pc = "await_extract" /\ ExtractReturns(i, FALSE)) =>
                       /\ r.pc = "await_summary"
                       /\ LastTrace = _trace_entry("WorldAgent", "FAIL")
                 /\ (inv[i].pc = "await_summary" /\ SummaryReturns(i, FALSE)) =>
                       IF inv[i].kind = "task"
                       THEN /\ r.pc = "done" /\ r.status = "COMPLETED"
                            /\ LastTrace = _trace_entry("WorldAgent", "FAIL")
                       ELSE /\ r.pc = "gone"
                            /\ run_repo'[inv[i].run_id].status = "COMPLETED"
                 /\ \A call \in UserCalls :
                       (inv[i].pc = "await_user" /\ call.status = "FAIL" /\ UserReturns(i, call)) =>
                           /\ r.pc \in {"await_counter", "await_extract"}
                           /\ r.turns[Len(r.turns)].message_text = call.message_text
                           /\ LastTrace = _trace_entry("UserProxy", "FAIL")
         ]_vars

\* a run completed although its counterparty call failed: turn 2 carries the
\* fallback message
CompletedAfterFailedCall ==
    \E i \in 1..Len(inv) :
        /\ inv[i].pc = "done"
        /\ inv[i].status = "COMPLETED"
        /\ Len(inv[i].turns) >= 2
        /\ inv[i].turns[2].message_text = CounterFallback
        /\ inv[i].agent_call_traces[2] = _trace_entry("Counterparty", "FAIL")

\* C14: the fallback evaluator is a total function of the numbers of the
\* latest counterparty message, the direction, the target and the
\* reservation, and changes nothing.  With V the lowest of the numbers for
\* MINIMIZE and the highest for MAXIMIZE: NEUTRAL when there is no number or
\* no target; PASS when V is at or past the target in the user's favour;
\* otherwise NEUTRAL when there is a reservation and V satisfies it; otherwise
\* FAIL.  "120,000" with MAXIMIZE and target 100,000 is PASS, "80,000" with
\* reservation 85,000 is FAIL, a text without numbers is NEUTRAL.
EvaluatorTable ==
    /\ [](inv[1].pc = "evaluated" =>
            LET case == request.case
                conv == inv[1].conversation
                said == {i \in 1..Len(conv) : conv[i].speaker = "COUNTERPARTY"}
                nums == IF said = {} THEN {}
                        ELSE LET last == CHOOSE i \in said : \A j \in said : j <= i
                             IN  {conv[last].text.nums[k] : k \in 1..Len(conv[last].text.nums)}
                direction == case.issues[1].direction
                target == ObjectiveValue(case, case.target)
                reservation == ObjectiveValue(case, case.reservation)
                favours(v, w) == IF direction = "MINIMIZE" THEN v <= w ELSE v >= w
                V == CHOOSE v \in nums : \A w \in nums : favours(v, w)
                expected == IF nums = {} \/ target = Nothing THEN "NEUTRAL"
                            ELSE IF favours(V, target[1]) THEN "PASS"
                            ELSE IF reservation # Nothing /\ favours(V, reservation[1])
                                 THEN "NEUTRAL"
                            ELSE "FAIL"
                only(n) == conv # <<>> /\ conv[Len(conv)].speaker = "COUNTERPARTY"
                               /\ conv[Len(conv)].text.nums = <<n>>
            IN  /\ inv[1].latest_outcome \in Outcomes
                /\ inv[1].latest_outcome = expected
                /\ (only(120000) /\ direction = "MAXIMIZE" /\ target = Some(100000))
                      => inv[1].latest_outcome = "PASS"
                /\ (only(80000) /\ direction = "MAXIMIZE" /\ target = Some(100000)
                      /\ reservation = Some(85000)) => inv[1].latest_outcome = "FAIL"
                /\ nums = {} => inv[1].latest_outcome = "NEUTRAL")
    /\ [][/\ request' = request
          /\ inv'[1].conversation = inv[1].conversation
          /\ db' = db]_vars

\* C14 witness: a MINIMIZE case whose latest counterparty message names a
\* number below the target and one above it was judged PASS
EvaluatedLowestOfTwo ==
    /\ inv # <<>> /\ inv[1].pc = "evaluated"
    /\ "case" \in DOMAIN request
    /\ request.case.issues[1].direction = "MINIMIZE"
    /\ request.case.target = [type |-> "SINGLE_VALUE", value |-> 100000]
    /\ Len(inv[1].conversation) = 3
    /\ inv[1].conversation[3].text.nums = <<120000, 80000>>
    /\ inv[1].latest_outcome = "PASS"

\* C15: when the arbiter's call for a counterparty turn succeeds with PASS,
\* FAIL or NEUTRAL, that verdict is the outcome of the turn (a NEUTRAL verdict
\* is kept whatever the evaluator would say); when the call fails or returns
\* anything else, the outcome is the fallback evaluator's result for the
\* conversation.  The outcome is what the appended counterparty turn carries.
ArbiterPrecedence ==
    [][\A i \in 1..Len(inv) : \A reply \in WorldReplies :
          WorldReturns(i, reply) =>
             LET valid == reply.ok /\ reply.outcome \in Outcomes
                 turn == inv'[i].turns[Len(inv'[i].turns)]
             IN  /\ valid => inv'[i].latest_outcome = reply.outcome
                 /\ ~valid => inv'[i].latest_outcome
                                  = _evaluate_outcome(TheCase, inv[i].conversation)
                 /\ Len(inv'[i].turns) = Len(inv[i].turns) + 1
                 /\ turn.speaker = "COUNTERPARTY"
                 /\ turn.outcome = inv'[i].latest_outcome
      ]_vars

\* C15 witness: the arbiter said NEUTRAL about an offer that the evaluator
\* judges PASS, and the turn was recorded as NEUTRAL
ArbiterNeutralKept ==
    \E i \in 1..Len(inv) :
        /\ inv[i].pc = "await_extract"
        /\ Len(inv[i].turns) >= 2
        /\ inv[i].turns[Len(inv[i].turns)].speaker = "COUNTERPARTY"
        /\ inv[i].turns[Len(inv[i].turns)].outcome = "NEUTRAL"
        /\ inv[i].agent_call_traces[Len(inv[i].agent_call_traces)]
              = _trace_entry("WorldAgent", "PASS")
        /\ _evaluate_outcome(TheCase, inv[i].conversation) = "PASS"

\* C16: when an ASK_INFO turn with a question text has its reservation
\* granted, _run_single returns in that step a PAUSED result with a pause
\* state and a pending question, and the asking turn is not appended: the
\* turns and the conversation are those before the agent was called.  In
\* every PAUSED result the number of turns is next_turn_index - 1, which is
\* the pending question's turn index - 1; asked_by is USER for an odd turn
\* index and COUNTERPARTY for an even one; a result carries a pending question
\* exactly when its status is PAUSED.  The stored runs keep this shape.
PausedResultShape ==
    /\ [](/\ \A i \in 1..Len(inv) :
               inv[i].pc = "done" =>
                  /\ inv[i].pending_question # Nothing <=> inv[i].status = "PAUSED"
                  /\ inv[i].pause_state # Nothing <=> inv[i].status = "PAUSED"
                  /\ inv[i].status = "PAUSED" =>
                        LET q == inv[i].pending_question[1]
                            p == inv[i].pause_state[1]
                        IN  /\ Len(inv[i].turns) = p.next_turn_index - 1
                            /\ q.turn_index = p.next_turn_index
                            /\ p.turns = inv[i].turns
                            /\ q.asked_by = IF q.turn_index % 2 = 1 THEN "USER" ELSE "COUNTERPARTY"
                            /\ ~IsBlank(q.question)
          /\ \A id \in DOMAIN run_repo :
               /\ run_repo[id].pending_question_id # Nothing <=> run_repo[id].status = "PAUSED"
               /\ trace_repo[id].pause_state # Nothing <=> run_repo[id].status = "PAUSED"
               /\ run_repo[id].status = "PAUSED" =>
                     LET p == trace_repo[id].pause_state[1]
                         q == question_repo[run_repo[id].pending_question_id[1]]
                     IN  /\ Len(run_repo[id].turns) = p.next_turn_index - 1
                         /\ p.turns = run_repo[id].turns
                         /\ q.run_id = id
                         /\ q.asked_by = IF p.next_turn_index % 2 = 1 THEN "USER"
                                         ELSE "COUNTERPARTY")
    /\ [][\A i \in 1..Len(inv) :
             ReserveIncr(i) =>
                /\ inv[i].kind = "task" =>
                      /\ inv'[i].pc = "done" /\ inv'[i].status = "PAUSED"
                      /\ inv'[i].turns = inv[i].turns
                      /\ inv'[i].conversation = inv[i].conversation
                      /\ inv'[i].pending_question[1].turn_index = inv[i].turn_index
                /\ inv[i].kind = "resume" =>
                      /\ inv'[i].pc = "gone"
                      /\ run_repo'[inv[i].run_id].status = "PAUSED"
                      /\ run_repo'[inv[i].run_id].turns = JsonTurns(inv[i].turns)
                      /\ trace_repo'[inv[i].run_id].pause_state[1].next_turn_index
                            = inv[i].turn_index
                      /\ Len(question_repo') = Len(question_repo) + 1
      ]_vars

\* C16 witness: a run paused on the counterparty's question at turn 2 with
\* the one user turn recorded
PausedOnCounterpartyQuestion ==
    \E i \in 1..Len(inv) :
        /\ inv[i].pc = "done"
        /\ inv[i].status = "PAUSED"
        /\ inv[i].pending_question[1].asked_by = "COUNTERPARTY"
        /\ inv[i].pending_question[1].turn_index = 2
        /\ Len(inv[i].turns) = 1

\* C17 (as claimed): resume_run leaves the pause state it was given unchanged,
\* so that a second call with the same pause state starts from the same
\* conversation, turns and outcome: while a resumed run is in progress the
\* dict it was given equals the pause state that was captured.
ResumeLeavesPauseStateUnchanged ==
    \A i \in 1..Len(inv) :
        (inv[i].kind = "resume" /\ inv[i].resume_state # Nothing)
            => GivenPauseState(inv[i]) = inv[i].resume_state

\* C18 (as claimed): the strategy suggestions of a run are generated once
\* when the run starts and a resume never generates them again, also when
\* the stored list is empty: all turns of a run, in a running invocation and
\* in a stored run, carry the same list, and a resumed invocation works with
\* the list stored for its run.
SuggestionsPreserved ==
    /\ \A i \in 1..Len(inv) : \A k, l \in 1..Len(inv[i].turns) :
          inv[i].turns[k].strategy_suggestions = inv[i].turns[l].strategy_suggestions
    /\ \A id \in DOMAIN run_repo : \A k, l \in 1..Len(run_repo[id].turns) :
          run_repo[id].turns[k].strategy_suggestions = run_repo[id].turns[l].strategy_suggestions
    /\ \A i \in 1..Len(inv) :
          (inv[i].kind = "resume" /\ inv[i].resume_state # Nothing)
              => inv[i].strategy_suggestions = inv[i].resume_state[1].strategy_suggestions

\* C19 (as claimed): a resume whose pause state names a turn index beyond
\* max_turns, or whose session budget is already exhausted, is rejected:
\* resume_run starts no turn engine for it, so no agent is called and no
\* run, trace or budget comes to exist or changes.
InvalidResumeRejected ==
    [][\A run_id \in DOMAIN run_repo : \A q \in 1..Len(question_repo) :
          AnswerQuestion(run_id, q) =>
             LET max_turns == IF run_repo[run_id].max_turns # 0 THEN run_repo[run_id].max_turns
                              ELSE DEFAULT_RESUME_MAX_TURNS
                 beyond == trace_repo[run_id].pause_state[1].next_turn_index > max_turns
                 exhausted == Exhausted(QuestionBudget(Some(run_repo[run_id].max_questions),
                                                       count_for_session))
             IN  (beyond \/ exhausted) =>
                    /\ inv' = inv
                    /\ budgets' = budgets
                    /\ run_repo' = run_repo /\ trace_repo' = trace_repo
      ]_vars

\* C20 (as claimed): a run is immutable once it is stored as COMPLETED: no
\* later step changes its stored turns, outcome, status or trace, and an
\* answer request is accepted for a PAUSED run only.
CompletedRunImmutable ==
    [][/\ \A id \in DOMAIN run_repo :
             run_repo[id].status = "COMPLETED" =>
                /\ run_repo'[id] = run_repo[id]
                /\ trace_repo'[id] = trace_repo[id]
       /\ \A id \in DOMAIN run_repo : \A q \in 1..Len(question_repo) :
             AnswerQuestion(id, q) => run_repo[id].status = "PAUSED"
      ]_vars

\* C21 (as claimed): a run is owned by one turn-engine invocation at a time:
\* no two invocations that are in progress (started and not yet returned,
\* failed or cancelled) work on the same run identifier.
OneEnginePerRun ==
    \A i, j \in 1..Len(inv) :
        (/\ i # j
         /\ inv[i].pc \notin {"sem_wait", "done", "gone", "failed", "cancelled", "discarded"}
         /\ inv[j].pc \notin {"sem_wait", "done", "gone", "failed", "cancelled", "discarded"})
            => inv[i].run_id # inv[j].run_id

\* C22: _normalize_action_type maps every accepted way of writing an action
\* type (the ActionType member, the bare tag in upper or lower case with
\* white space around it, the tag behind a namespace prefix) to the
\* upper-case bare tag, so all ways of writing one action give one result;
\* normalizing the result again gives the same result; and _extract_action
\* returns the action and its payload as they were reported, next to the
\* normalized tag.
NormalizationCanonical ==
    inv[1].pc = "extracted" =>
        LET call == inv[1].call[1]
            value == Chars(request.type, request.left, request.right)
            extracted == _extract_action(call)
        IN  /\ NormalizeChars(value) = Spell[request.type.tag]
            /\ NormalizeChars([kind |-> "str", value |-> NormalizeChars(value)])
                  = NormalizeChars(value)
            /\ Spell[extracted.action_type] = NormalizeChars(value)
            /\ _normalize_action_type(StrType("", extracted.action_type, FALSE, FALSE))
                  = extracted.action_type
            /\ extracted.action_obj = Action(request.type, request.question)
            /\ extracted.payload = [question |-> request.question]

\* C22 witness: a lower-case tag behind a namespace prefix, with white space
\* on both sides, was extracted
ExtractedPaddedNamespaced ==
    /\ inv # <<>> /\ inv[1].pc = "extracted"
    /\ "left" \in DOMAIN request
    /\ request.type = StrType("ActionType", "ASK_INFO", TRUE, TRUE)
    /\ request.left > 0 /\ request.right > 0
    /\ _extract_action(inv[1].call[1]).action_type = "ASK_INFO"

\* C23: in every result and every stored run the COUNTERPARTY turn 2j and the
\* USER turn 2j-1 carry the same outcome, the one resolved when the
\* counterparty turn was appended, also when the run paused between the two
\* turns and was resumed.  The step that appends a counterparty turn changes
\* nothing in the turns before it except the outcome of the user turn of the
\* same round, and keeps their order.
OutcomeBackfilled ==
    /\ [](/\ \A i \in 1..Len(inv) : \A k \in 1..Len(inv[i].turns) :
               k % 2 = 0 => inv[i].turns[k - 1].outcome = inv[i].turns[k].outcome
          /\ \A id \in DOMAIN run_repo : \A k \in 1..Len(run_repo[id].turns) :
               k % 2 = 0 => run_repo[id].turns[k - 1].outcome = run_repo[id].turns[k].outcome)
    /\ [][\A i \in 1..Len(inv) : \A reply \in WorldReplies :
             WorldReturns(i, reply) =>
                LET pre == inv[i].turns
                    post == inv'[i].turns
                IN  /\ Len(post) = Len(pre) + 1
                    /\ post[Len(post)].outcome = inv'[i].latest_outcome
                    /\ \A k \in 1..Len(pre) :
                          IF k = Len(pre)
                          THEN post[k] = [pre[k] EXCEPT !.outcome = inv'[i].latest_outcome]
                          ELSE post[k] = pre[k]
      ]_vars

\* C23 witness: a stored run of four turns that paused on the counterparty's
\* question in its second round; the first round is NEUTRAL and the second
\* round has the verdict PASS or FAIL on both of its turns
SecondRoundBackfilledAfterResume ==
    \E q \in 1..Len(question_repo) :
        LET id == question_repo[q].run_id
        IN  /\ question_repo[q].asked_by = "COUNTERPARTY"
            /\ question_repo[q].status = "ANSWERED"
            /\ run_repo[id].status = "COMPLETED"
            /\ Len(run_repo[id].turns) = 4
            /\ trace_repo[id].pause_state = Nothing
            /\ run_repo[id].turns[1].outcome = "NEUTRAL"
            /\ run_repo[id].turns[2].outcome = "NEUTRAL"
            /\ run_repo[id].turns[3].outcome \in {"PASS", "FAIL"}
            /\ run_repo[id].turns[4].outcome = run_repo[id].turns[3].outcome

\* C24: an invocation that returns without pausing has made, after its last
\* turn, one extraction call and then one summary call, and returns COMPLETED
\* whether or not they failed; a failure is the FAIL status of the call's
\* trace entry.  An invocation that pauses makes neither call and its run has
\* no summary.  In the traces of a run the WorldAgent entries are one per
\* counterparty turn, and two more, at the end, exactly when the run is
\* COMPLETED.
ExtractionAndSummaryOnce ==
    /\ [](/\ \A i \in 1..Len(inv) :
               inv[i].pc = "done" =>
                  LET tr == inv[i].agent_call_traces
                      world == Cardinality({k \in 1..Len(tr) : tr[k].agent_name = "WorldAgent"})
                      counter == Cardinality({k \in 1..Len(inv[i].turns) :
                                                 inv[i].turns[k].speaker = "COUNTERPARTY"})
                  IN  IF inv[i].status = "COMPLETED"
                      THEN /\ inv[i].summary # Nothing
                           /\ world = counter + 2
                           /\ tr[Len(tr)].agent_name = "WorldAgent"
                           /\ tr[Len(tr) - 1].agent_name = "WorldAgent"
                           /\ inv[i].summary = Some(tr[Len(tr)].validation_result)
                      ELSE /\ inv[i].status = "PAUSED"
                           /\ inv[i].summary = Nothing
                           /\ world = counter
                           /\ tr[Len(tr)].agent_name # "WorldAgent"
          /\ \A id \in DOMAIN run_repo :
               LET tr == trace_repo[id].agent_call_traces
                   world == Cardinality({k \in 1..Len(tr) : tr[k].agent_name = "WorldAgent"})
                   counter == Cardinality({k \in 1..Len(run_repo[id].turns) :
                                              run_repo[id].turns[k].speaker = "COUNTERPARTY"})
               IN  /\ run_repo[id].status = "COMPLETED" <=> run_repo[id].summary # Nothing
                   /\ world = counter + (IF run_repo[id].status = "COMPLETED" THEN 2 ELSE 0))
    /\ [][\A i \in 1..Len(inv) :
             /\ inv[i].pc = "await_extract" =>
                   \/ inv'[i] = inv[i]
                   \/ inv'[i].pc \in {"await_summary", "failed", "cancelled"}
             /\ \A ok \in BOOLEAN : ExtractReturns(i, ok) =>
                   /\ inv'[i].pc = "await_summary"
                   /\ inv'[i].turns = inv[i].turns
                   /\ inv'[i].agent_call_traces
                         = Append(inv[i].agent_call_traces,
                                  _trace_entry("WorldAgent", IF ok THEN "PASS" ELSE "FAIL"))
             /\ \A ok \in BOOLEAN : (inv[i].kind = "task" /\ SummaryReturns(i, ok)) =>
                   /\ inv'[i].pc = "done" /\ inv'[i].status = "COMPLETED"
                   /\ inv'[i].turns = inv[i].turns
                   /\ inv'[i].agent_call_traces
                         = Append(inv[i].agent_call_traces,
                                  _trace_entry("WorldAgent", IF ok THEN "PASS" ELSE "FAIL"))
             /\ \A ok \in BOOLEAN : (inv[i].kind = "resume" /\ SummaryReturns(i, ok)) =>
                   /\ inv'[i].pc = "gone"
                   /\ run_repo'[inv[i].run_id].status = "COMPLETED"
                   /\ trace_repo'[inv[i].run_id].agent_call_traces
                         = Append(inv[i].agent_call_traces,
                                  _trace_entry("WorldAgent", IF ok THEN "PASS" ELSE "FAIL"))
      ]_vars

\* C24 witness: a COMPLETED result whose extraction call failed and whose
\* summary call succeeded
CompletedAfterFailedExtraction ==
    \E i \in 1..Len(inv) :
        LET tr == inv[i].agent_call_traces
        IN  /\ inv[i].pc = "done"
            /\ inv[i].status = "COMPLETED"
            /\ tr[Len(tr) - 1] = _trace_entry("WorldAgent", "FAIL")
            /\ tr[Len(tr)] = _trace_entry("WorldAgent", "PASS")
            /\ Len(inv[i].turns) >= 1
            /\ tr[Len(tr) - 2].validation_result = "PASS"

\* C25 (as claimed): a malformed action counts as no action.  A counterparty
\* reply whose action payload has an unexpected shape (its question is not a
\* string) neither pauses the run nor touches the budget, and the turn goes
\* on with the default action type COUNTER_OFFER: the counterparty's message
\* is in the conversation and the verdict of the round is awaited.
MalformedActionDefaults ==
    [][\A i \in 1..Len(inv) : \A reply \in CounterReplies :
          (/\ reply.ok
           /\ ~IsString(reply.action.payload.question)
           /\ CounterReturns(i, reply)) =>
              /\ inv'[i].pc = "await_world"
              /\ _normalize_action_type(inv'[i].call[1].action.type) = "COUNTER_OFFER"
              /\ Len(inv'[i].conversation) = Len(inv[i].conversation) + 1
              /\ budgets' = budgets
      ]_vars

\* C26 (as claimed): an invocation whose agent calls all return produces a
\* result.  An invocation raises only when one of its agent calls raised;
\* every result is COMPLETED or PAUSED and has at most max(1, max_turns)
\* turns; and a COMPLETED run carries the last known outcome: the outcome of
\* its last counterparty turn, NEUTRAL when no counterparty turn resolved one.
InvocationYieldsResult ==
    /\ [](\A id \in DOMAIN run_repo :
             LET run == run_repo[id]
                 counter == {k \in 1..Len(run.turns) : run.turns[k].speaker = "COUNTERPARTY"}
             IN  /\ run.status \in {"COMPLETED", "PAUSED"}
                 /\ Len(run.turns) <= Max2(1, run.max_turns)
                 /\ run.status = "COMPLETED" =>
                       run.outcome = IF counter = {} THEN "NEUTRAL"
                                     ELSE run.turns[CHOOSE k \in counter :
                                              \A j \in counter : j <= k].outcome)
    /\ [][\A i \in 1..Len(inv) :
             (inv[i].pc # "failed" /\ inv'[i].pc = "failed") => env'.faults < env.faults
         ]_vars

\* C27 (as claimed): the fallback evaluator judges one issue.  The target and
\* the reservation it compares against are those of the highest-weight issue,
\* and the direction it applies is the direction of that same issue, wherever
\* the issue stands in the list: the outcome is the one the table gives for
\* the primary issue's direction.
EvaluatorJudgesPrimaryIssue ==
    inv[1].pc = "evaluated" =>
        LET case == request.case
            primary == CHOOSE k \in 1..Len(case.issues) :
                          Some(case.issues[k].issue_id) = _primary_issue_id(case)
            direction == case.issues[primary].direction
            nums == LatestCounter(inv[1].conversation).nums
            target == ObjectiveValue(case, case.target)
            reservation == ObjectiveValue(case, case.reservation)
            favours(v, w) == IF direction = "MINIMIZE" THEN v <= w ELSE v >= w
            V == CHOOSE k \in 1..Len(nums) : \A j \in 1..Len(nums) : favours(nums[k], nums[j])
        IN  inv[1].latest_outcome =
               IF nums = <<>> \/ target = Nothing THEN "NEUTRAL"
               ELSE IF favours(nums[V], target[1]) THEN "PASS"
               ELSE IF reservation # Nothing /\ favours(nums[V], reservation[1]) THEN "NEUTRAL"
               ELSE "FAIL"

\* C28: budget is consumed exactly by pauses.  In every step the used count
\* of a budget grows by the number of invocations under it that return a
\* PAUSED result with a pending question in that step (a task holds the
\* result, a resume has it stored with its question); an invocation returns
\* PAUSED only in the step in which its reservation succeeds, so no agent
\* call or other suspension lies between the two, and a reservation that
\* succeeds returns PAUSED; an ASK_INFO request whose question text is empty
\* does not enter reserve() and goes on as a turn with the default action.
BudgetConsumedByPauses ==
    [][LET Returned(i) ==
               \/ /\ inv[i].kind = "task" /\ inv[i].pc # "done" /\ inv'[i].pc = "done"
                  /\ inv'[i].status = "PAUSED"
               \/ /\ inv[i].kind = "resume" /\ inv[i].pc # "gone" /\ inv'[i].pc = "gone"
                  /\ run_repo'[inv[i].run_id].status = "PAUSED"
           Pending(i) ==
               IF inv[i].kind = "task" THEN inv'[i].pending_question # Nothing
               ELSE /\ Len(question_repo') = Len(question_repo) + 1
                    /\ run_repo'[inv[i].run_id].pending_question_id = Some(Len(question_repo'))
                    /\ question_repo'[Len(question_repo')].status = "PENDING"
           Blank(call) ==
               /\ _extract_action(call).action_type = "ASK_INFO"
               /\ ~QuestionTextRaises(call.action.payload)
               /\ IsBlank(_extract_question_text(call.message_text, call.action.payload))
           InReserve(r) == r.pc \in {"reserve_lock", "reserve_check", "reserve_incr"}
       IN  /\ \A b \in 1..Len(budgets) :
                budgets'[b].used - budgets[b].used =
                   Cardinality({i \in 1..Len(inv) : inv[i].budget = b /\ Returned(i)})
           /\ \A i \in 1..Len(inv) :
                /\ Returned(i) => inv[i].pc = "reserve_incr" /\ Pending(i)
                /\ (inv[i].pc = "reserve_incr" /\ inv'[i].pc \notin {"reserve_incr", "cancelled"})
                      => Returned(i)
                /\ \A call \in UserCalls :
                      (Blank(call) /\ UserReturns(i, call)) =>
                          /\ ~InReserve(inv'[i])
                          /\ budgets' = budgets
                          /\ Len(inv'[i].turns) = Len(inv[i].turns) + 1
                          /\ _normalize_action_type(
                                inv'[i].turns[Len(inv'[i].turns)].action.type) = "PROPOSE_OFFER"
      ]_vars

\* C28 witness: a run whose first turn was an ASK_INFO request without any
\* text, recorded as an offer, is paused on the counterparty's question at
\* turn 2, and its budget counts one question
PausedOnceAfterBlankRequest ==
    \E i \in 1..Len(inv) :
        /\ inv[i].pc = "done" /\ inv[i].status = "PAUSED"
        /\ inv[i].pending_question # Nothing
        /\ inv[i].pending_question[1].asked_by = "COUNTERPARTY"
        /\ Len(inv[i].turns) = 1
        /\ inv[i].turns[1].message_text = EmptyText
        /\ _normalize_action_type(inv[i].turns[1].action.type) = "PROPOSE_OFFER"
        /\ budgets[inv[i].budget].used = 1

AnswerOnlyPendingQuestion ==
    [][\A run_id \in DOMAIN run_repo : \A q \in 1..Len(question_repo) :
          AnswerQuestion(run_id, q) =>
              /\ question_repo[q].status = "PENDING"
              /\ run_repo[run_id].pending_question_id = Some(q)
      ]_vars

====
